---------------------------- MODULE Spec2Model ----------------------------
(***************************************************************************)
(* A model of the LSG2 time-series codec of lasagna2 (src/lasagna2/core.py) *)
(*                                                                         *)
(* Conventions.                                                            *)
(*  - A Python int that takes part in bit operations (ZigZag, varint) is a *)
(*    two's-complement number in base 128: [d |-> digits, least            *)
(*    significant first, s |-> 0 or -1], where s is the sign extension (all *)
(*    higher digits are 0 when s = 0 and 127 when s = -1).  Python ints are *)
(*    unbounded, and so are these.                                         *)
(*  - A Python float is an exact rational [n |-> numerator, d |->          *)
(*    denominator > 0] in lowest terms, or NaN, written [n |-> 0, d |-> 0]. *)
(*    math.sqrt is rounded down to a multiple of 1/SqrtDen.                *)
(*  - A byte buffer is the record of the fields the decoder's layout finds *)
(*    in it, together with len, the number of bytes the buffer holds.      *)
(***************************************************************************)
EXTENDS Integers, Sequences, FiniteSets, TLC

(***************************************************************************)
(* Bounds of the model                                                     *)
(***************************************************************************)
\* the integer samples of the ZigZag / varint pipeline include -SmallInt..SmallInt
SmallInt == 70

(***************************************************************************)
(* Generic helpers                                                         *)
(***************************************************************************)
Min(a, b) == IF a <= b THEN a ELSE b

Max(a, b) == IF a >= b THEN a ELSE b

Abs(a) == IF a < 0 THEN -a ELSE a

RECURSIVE Pow2(_)
Pow2(k) == IF k <= 0 THEN 1 ELSE 2 * Pow2(k - 1)

RECURSIVE Pow128(_)
Pow128(k) == IF k <= 0 THEN 1 ELSE 128 * Pow128(k - 1)

\* Python's s[a:b] for 0 <= a (0-based, b exclusive), clamped to the sequence
Slice(s, a, b) ==
  LET hi == Min(b, Len(s))
  IN  IF a >= hi THEN << >> ELSE [k \in 1..(hi - a) |-> s[a + k]]

(***************************************************************************)
(* Python ints under bit operations                                        *)
(***************************************************************************)
ExtDigit(w) == IF w.s = 0 THEN 0 ELSE 127

\* the digit at 0-based position i, sign-extended
Digit(w, i) == IF i < Len(w.d) THEN w.d[i + 1] ELSE ExtDigit(w)

RECURSIVE TrimDigits(_, _)
TrimDigits(ds, ext) ==
  IF ds # << >> /\ ds[Len(ds)] = ext
  THEN TrimDigits(SubSeq(ds, 1, Len(ds) - 1), ext)
  ELSE ds

\* the canonical form: no leading (most significant) sign-extension digits
Norm(w) == [d |-> TrimDigits(w.d, ExtDigit(w)), s |-> w.s]

RECURSIVE FromInt(_)
FromInt(n) ==
  IF n = 0 THEN [d |-> << >>, s |-> 0]
  ELSE IF n = -1 THEN [d |-> << >>, s |-> -1]
  ELSE LET rest == FromInt(n \div 128)
       IN  [d |-> <<n % 128>> \o rest.d, s |-> rest.s]

\* the value of w as a model integer; only for |w| below 2^31
RECURSIVE DigitsValue(_)
DigitsValue(ds) ==
  IF ds = << >> THEN 0 ELSE ds[1] + 128 * DigitsValue(Tail(ds))

ToInt(w) ==
  IF w.s = 0 THEN DigitsValue(w.d)
  ELSE DigitsValue([i \in 1..Len(w.d) |-> w.d[i] - 127]) - 1

\* w fits a signed 32-bit integer: -2^31 <= w <= 2^31 - 1
IsInt32(w) ==
  \/ Len(w.d) <= 4
  \/ Len(w.d) = 5 /\ (IF w.s = 0 THEN w.d[5] <= 7 ELSE w.d[5] >= 120)

\* 0 <= w < 2^32
IsUInt32(w) ==
  /\ w.s = 0
  /\ Len(w.d) <= 4 \/ (Len(w.d) = 5 /\ w.d[5] <= 15)

IsNeg(w) == w.s = -1

\* the model integers of a list of Python ints that fit 32 bits
IntsOf(ws) == [k \in 1..Len(ws) |-> ToInt(ws[k])]

\* the Python ints of a list of model integers
WideOf(vs) == [k \in 1..Len(vs) |-> FromInt(vs[k])]

\* magnitudes as digit sequences (base 128, least significant first):
\* ds * m + carry, for m below 2^24
RECURSIVE MulDigits(_, _, _)
MulDigits(ds, m, carry) ==
  IF ds = << >> THEN FromInt(carry).d
  ELSE <<((ds[1] * m) + carry) % 128>>
       \o MulDigits(Tail(ds), m, ((ds[1] * m) + carry) \div 128)

\* quotient digits and remainder of ds divided by c, for 0 < c below 2^24
RECURSIVE DivDigits(_, _)
DivDigits(ds, c) ==
  IF ds = << >> THEN [q |-> << >>, r |-> 0]
  ELSE LET hi == DivDigits(Tail(ds), c)
       IN  [q |-> <<((hi.r * 128) + ds[1]) \div c>> \o hi.q,
            r |-> ((hi.r * 128) + ds[1]) % c]

\* ds + 1
RECURSIVE IncDigits(_)
IncDigits(ds) ==
  IF ds = << >> THEN <<1>>
  ELSE IF ds[1] < 127 THEN <<ds[1] + 1>> \o Tail(ds)
  ELSE <<0>> \o IncDigits(Tail(ds))

\* ds - 1 for ds that holds a non-zero digit
RECURSIVE DecDigits(_)
DecDigits(ds) ==
  IF ds[1] > 0 THEN <<ds[1] - 1>> \o Tail(ds)
  ELSE <<127>> \o DecDigits(Tail(ds))

\* the Python int of sign sg (1 or -1) and magnitude ds
SignedDigits(sg, ds) ==
  IF sg >= 0 \/ TrimDigits(ds, 0) = << >>
  THEN [d |-> TrimDigits(ds, 0), s |-> 0]
  ELSE Norm([d |-> [i \in 1..Len(TrimDigits(ds, 0)) |->
                     127 - DecDigits(TrimDigits(ds, 0))[i]],
             s |-> -1])

\* the quotient dv.q with remainder dv.r of a division by c, rounded to the
\* nearest integer, ties to even
RoundedDigits(dv, c) ==
  IF (2 * dv.r) > c \/ ((2 * dv.r) = c /\ (Digit([d |-> dv.q, s |-> 0], 0) % 2) = 1)
  THEN IncDigits(dv.q)
  ELSE dv.q

WZero == [d |-> << >>, s |-> 0]

RECURSIVE XorDigit(_, _)
XorDigit(a, b) ==
  IF a = 0 THEN b
  ELSE IF b = 0 THEN a
  ELSE (2 * XorDigit(a \div 2, b \div 2))
       + (IF (a % 2) = (b % 2) THEN 0 ELSE 1)

\* w1 ^ w2
WXor(w1, w2) ==
  LET len == Max(Len(w1.d), Len(w2.d))
  IN  Norm([d |-> [i \in 1..len |-> XorDigit(Digit(w1, i - 1), Digit(w2, i - 1))],
            s |-> IF w1.s = w2.s THEN 0 ELSE -1])

\* w << 1
WShl1(w) ==
  Norm([d |-> [i \in 1..(Len(w.d) + 1) |->
                 ((2 * Digit(w, i - 1)) % 128)
                 + (IF i = 1 THEN 0 ELSE (Digit(w, i - 2) \div 64))],
        s |-> w.s])

\* w >> k (arithmetic), k >= 0
WShr(w, k) ==
  LET q == k \div 7
      r == k % 7
  IN  Norm([d |-> [i \in 1..Max(Len(w.d) - q, 0) |->
                     (Digit(w, i - 1 + q) \div Pow2(r))
                     + (Pow2(7 - r) * (Digit(w, i + q) % Pow2(r)))],
            s |-> w.s])

\* w >> 1
WShr1(w) == WShr(w, 1)

\* w & 1
WAnd1(w) == Digit(w, 0) % 2

\* w & 0x7F
WAnd7F(w) == Digit(w, 0)

\* w >> 7
WShr7(w) == IF w.d = << >> THEN w ELSE [d |-> Tail(w.d), s |-> w.s]

\* w | (digit << shift), for a w with no bit at or above shift (shift = 7k)
WOrShifted(w, digit, shift) ==
  LET k == shift \div 7
  IN  [d |-> [i \in 1..(k + 1) |->
                IF i <= Len(w.d) THEN w.d[i] ELSE IF i = k + 1 THEN digit ELSE 0],
       s |-> 0]

(***************************************************************************)
(* ZigZag and varint                                                       *)
(***************************************************************************)
ZIGZAG_SHIFT == 31

zigzag_encode(n) == WXor(WShl1(n), WShr(n, ZIGZAG_SHIFT))

\* a decode without the negation: (z >> 1) ^ (z & 1)
zigzag_decode_no_negate(z) == WXor(WShr1(z), FromInt(WAnd1(z)))

zigzag_decode(z) == WXor(WShr1(z), FromInt(-WAnd1(z)))

\* the loop of _encode_varint, for value >= 0
RECURSIVE encode_varint_loop(_)
encode_varint_loop(value) ==
  LET to_write == WAnd7F(value)
      rest     == WShr7(value)
  IN  IF rest # WZero
      THEN <<to_write + 128>> \o encode_varint_loop(rest)
      ELSE <<to_write>>

_encode_varint(value) ==
  IF IsNeg(value)
  THEN [err |-> "varint expects non-negative integers", bytes |-> << >>]
  ELSE [err |-> "", bytes |-> encode_varint_loop(value)]

\* a limit one 7-bit group short
varint_max_shift_short == 63 - 7

VARINT_MAX_SHIFT == 63

\* the loop of _decode_varint: data, 0-based offset, shift, result so far
RECURSIVE decode_varint_loop(_, _, _, _)
decode_varint_loop(data, offset, shift, result) ==
  IF offset >= Len(data)
  THEN [err |-> "Truncated varint", value |-> WZero, offset |-> offset]
  ELSE LET b   == data[offset + 1]
           res == WOrShifted(result, b % 128, shift)
       IN  IF b < 128
           THEN [err |-> "", value |-> Norm(res), offset |-> offset + 1]
           ELSE IF shift + 7 > VARINT_MAX_SHIFT
                THEN [err |-> "Varint too long", value |-> WZero,
                      offset |-> offset + 1]
                ELSE decode_varint_loop(data, offset + 1, shift + 7, res)

\* a decode that starts at the head of the buffer whatever offset it is given
decode_varint_from_head(data, offset) == decode_varint_loop(data, 0, 0, WZero)

_decode_varint(data, offset) == decode_varint_loop(data, offset, 0, WZero)

(***************************************************************************)
(* Python floats                                                           *)
(***************************************************************************)
\* the denominator math.sqrt is rounded down to
SqrtDen == 64

\* the precision of the float arithmetic of the run: the number of significand
\* bits every float result is rounded to (53 in CPython), or 0 for arithmetic
\* without rounding
VARIABLE prec

RECURSIVE GCD(_, _)
GCD(a, b) == IF b = 0 THEN a ELSE GCD(b, a % b)

NaN == [n |-> 0, d |-> 0]

IsNaN(x) == x.d = 0

\* the float num/den, den > 0, in lowest terms
Frac(num, den) ==
  LET g == GCD(Abs(num), den)
  IN  [n |-> num \div g, d |-> den \div g]

FZero == [n |-> 0, d |-> 1]

\* int(round(a)) for a float that is no NaN: to nearest, ties to even
FRound(a) ==
  LET f  == (2 * a.n) + a.d
      dn == 2 * a.d
      fq == f \div dn
  IN  IF (f % dn) = 0 /\ (fq % 2) = 1 THEN fq - 1 ELSE fq

\* the significand m of p bits and the exponent e of the float nearest to
\* (n / d) * 2^e0, ties to even: 2^(p-1) <= n / d < 2^p after scaling
RECURSIVE round_significand(_, _, _, _)
round_significand(p, n, d, e) ==
  IF n < d * Pow2(p - 1) THEN round_significand(p, 2 * n, d, e - 1)
  ELSE IF n >= d * Pow2(p) THEN round_significand(p, n, 2 * d, e + 1)
  ELSE [m |-> FRound([n |-> n, d |-> d]), e |-> e]

\* m * 2^e
significand_value(r) ==
  IF r.e >= 0 THEN Frac(r.m * Pow2(r.e), 1) ELSE Frac(r.m, Pow2(-r.e))

\* the float of p significand bits nearest to x (no overflow, no subnormals)
round_to_precision(p, x) ==
  IF IsNaN(x) \/ x.n = 0 THEN x
  ELSE IF x.n > 0 THEN significand_value(round_significand(p, x.n, x.d, 0))
  ELSE [n |-> -significand_value(round_significand(p, -x.n, x.d, 0)).n,
        d |-> significand_value(round_significand(p, -x.n, x.d, 0)).d]

\* the result of a float operation whose exact value is x
fl(x) == IF prec = 0 THEN x ELSE round_to_precision(prec, x)

\* float(k)
FI(k) == fl([n |-> k, d |-> 1])

\* a + b, over the least common denominator
FAdd(a, b) ==
  IF IsNaN(a) \/ IsNaN(b) THEN NaN
  ELSE fl(Frac((a.n * (b.d \div GCD(a.d, b.d))) + (b.n * (a.d \div GCD(a.d, b.d))),
               (a.d \div GCD(a.d, b.d)) * b.d))

FNeg(a) == IF IsNaN(a) THEN NaN ELSE [n |-> -a.n, d |-> a.d]

FSub(a, b) == FAdd(a, FNeg(b))

FMul(a, b) ==
  IF IsNaN(a) \/ IsNaN(b) THEN NaN
  ELSE fl(Frac((a.n \div GCD(Abs(a.n), b.d)) * (b.n \div GCD(Abs(b.n), a.d)),
               (a.d \div GCD(Abs(b.n), a.d)) * (b.d \div GCD(Abs(a.n), b.d))))

\* a / b for b # 0 (Python raises ZeroDivisionError for b = 0; callers test it)
FDiv(a, b) ==
  IF IsNaN(a) \/ IsNaN(b) \/ b.n = 0 THEN NaN
  ELSE IF b.n > 0 THEN FMul(a, [n |-> b.d, d |-> b.n])
  ELSE FMul(a, [n |-> -b.d, d |-> -b.n])

\* the comparisons: every comparison with NaN is false
FLe(a, b) ==
  /\ ~IsNaN(a)
  /\ ~IsNaN(b)
  /\ LET g == GCD(a.d, b.d) IN (a.n * (b.d \div g)) <= (b.n * (a.d \div g))

FLt(a, b) ==
  /\ ~IsNaN(a)
  /\ ~IsNaN(b)
  /\ LET g == GCD(a.d, b.d) IN (a.n * (b.d \div g)) < (b.n * (a.d \div g))

FEq(a, b) == ~IsNaN(a) /\ ~IsNaN(b) /\ a = b

\* Python's max(a, b): b if b > a, else a
FMax(a, b) == IF FLt(a, b) THEN b ELSE a

\* the largest k with k * k <= m
RECURSIVE ISqrt(_)
ISqrt(m) ==
  IF m < 2 THEN m
  ELSE LET r == 2 * ISqrt(m \div 4)
       IN  IF ((r + 1) * (r + 1)) <= m THEN r + 1 ELSE r

\* of the two neighbours lo and lo + 2 (lo even) of the square root of n / d,
\* the one nearer to it; on a tie the one with the even significand
sqrt_nearest(n, d, lo) ==
  IF n < (lo + 1) * (lo + 1) * d THEN lo
  ELSE IF n > (lo + 1) * (lo + 1) * d THEN lo + 2
  ELSE IF (lo \div 2) % 2 = 0 THEN lo
  ELSE lo + 2

\* the square root of (n / d) * 4^(-k) as c / 2^k, c of p significand bits
\* times 2: 4^p <= n / d < 4^(p+1) after scaling
RECURSIVE sqrt_significand(_, _, _, _)
sqrt_significand(p, n, d, k) ==
  IF n < d * Pow2(2 * p) THEN sqrt_significand(p, 4 * n, d, k + 1)
  ELSE IF n >= d * Pow2((2 * p) + 2) THEN sqrt_significand(p, n, 4 * d, k - 1)
  ELSE [m |-> sqrt_nearest(n, d, 2 * (ISqrt(n \div d) \div 2)), e |-> -k]

\* math.sqrt(a) for a >= 0: without rounding, rounded down to a multiple of
\* 1/SqrtDen; with rounding, the float of prec bits nearest to the square root
FSqrt(a) ==
  IF IsNaN(a) THEN NaN
  ELSE IF prec = 0 \/ a.n = 0
  THEN Frac(ISqrt((a.n * SqrtDen * SqrtDen) \div a.d), SqrtDen)
  ELSE significand_value(sqrt_significand(prec, a.n, a.d, 0))

\* sum(xs) of floats: acc + xs[0] + xs[1] + ..., left to right from the int 0
RECURSIVE FSumFrom(_, _)
FSumFrom(acc, xs) ==
  IF xs = << >> THEN acc ELSE FSumFrom(FAdd(acc, xs[1]), Tail(xs))

FSum(xs) == FSumFrom(FZero, xs)

\* sum(xs) of model integers
RECURSIVE ISum(_)
ISum(xs) == IF xs = << >> THEN 0 ELSE xs[1] + ISum(Tail(xs))

(***************************************************************************)
(* Stats, predictors, quantization                                         *)
(***************************************************************************)
\* sum((v - mean) ** 2 for v in x) / n
variance_about(x, mean) ==
  FDiv(FSum([k \in 1..Len(x) |-> FMul(FSub(x[k], mean), FSub(x[k], mean))]),
       FI(Len(x)))

\* slope = 0.0 if denom == 0 else (n * sum_tx - sum_t * sum_x) / denom
stats_slope(n, sum_t, sum_x, sum_tx, denom) ==
  IF FEq(denom, FZero) THEN FZero
  ELSE FDiv(FSub(FMul(FI(n), sum_tx), FMul(sum_t, sum_x)), denom)

\* intercept = mean - slope * (sum_t / n), the variance, and the returned tuple
stats_tuple(x, mean, sum_t, slope) ==
  [mean |-> mean, slope |-> slope,
   intercept |-> FSub(mean, FMul(slope, FDiv(sum_t, FI(Len(x))))),
   var |-> variance_about(x, mean)]

\* the regression of compute_stats for n >= 2, from its sums
stats_regression(x, n, mean, sum_t, sum_t2, sum_x, sum_tx) ==
  stats_tuple(x, mean, sum_t,
              stats_slope(n, sum_t, sum_x, sum_tx,
                          FSub(FMul(FI(n), sum_t2), FMul(sum_t, sum_t))))

\* the returns of compute_stats for n = 1 and n >= 2
stats_of_mean(x, n, mean) ==
  IF n = 1 THEN [mean |-> mean, slope |-> FZero, intercept |-> mean, var |-> FZero]
  ELSE stats_regression(x, n, mean, FDiv(FI((n - 1) * n), FI(2)),
                        FDiv(FI((n - 1) * n * ((2 * n) - 1)), FI(6)), FSum(x),
                        FSum([k \in 1..n |-> FMul(FI(k - 1), x[k])]))

compute_stats(x) ==
  IF Len(x) = 0
  THEN [mean |-> FZero, slope |-> FZero, intercept |-> FZero, var |-> FZero]
  ELSE stats_of_mean(x, Len(x), FDiv(FSum(x), FI(Len(x))))

predict_mean_const(length, mean) == [k \in 1..length |-> mean]

predict_linear(length, slope, intercept) ==
  [k \in 1..length |-> FAdd(intercept, FMul(slope, FI(k - 1)))]

predict_random_walk(x, seed) ==
  [k \in 1..Len(x) |-> IF k = 1 THEN seed ELSE x[k - 1]]

NoError == [kind |-> "", msg |-> ""]

ValueError(m) == [kind |-> "ValueError", msg |-> m]

\* if Q == 0.0: Q = Q_MIN
zero_step_to_min(Q, Q_MIN) == IF FEq(Q, FZero) THEN Q_MIN ELSE Q

\* a step that is C_Q * sigma without the floor Q_MIN
quant_step_unfloored(residuals, C_Q, Q_MIN) ==
  FMul(C_Q, FSqrt(variance_about(residuals,
                                 FDiv(FSum(residuals), FI(Len(residuals))))))

\* the step Q of quantize_residuals for a non-empty list
quant_step(residuals, C_Q, Q_MIN) ==
  zero_step_to_min(
    FMax(FMul(C_Q, FSqrt(variance_about(residuals,
                                        FDiv(FSum(residuals), FI(Len(residuals)))))),
         Q_MIN),
    Q_MIN)

\* int(round(sg * (a * b) / c)) as a Python int, for a >= 0, b > 0 and c > 0
round_ratio(sg, a, b, c) ==
  SignedDigits(sg, RoundedDigits(DivDigits(MulDigits(FromInt(a).d, b, 0), c), c))

\* int(round(r / Q)) for floats r and Q # 0 that are no NaN.  The quotient is
\* a Python int of any size; without rounding of the float quotient it is the
\* exact ratio rounded to the nearest integer.
round_quotient(r, Q) ==
  IF prec # 0 THEN FromInt(FRound(FDiv(r, Q)))
  ELSE round_ratio(IF (r.n < 0) = (Q.n < 0) THEN 1 ELSE -1,
                   Abs(r.n) \div GCD(Abs(r.n), Abs(Q.n)),
                   Q.d \div GCD(Q.d, r.d),
                   (r.d \div GCD(Q.d, r.d)) * (Abs(Q.n) \div GCD(Abs(r.n), Abs(Q.n))))

\* q_res = [int(round(r / Q)) for r in residuals]
quantize_with_step(residuals, Q) ==
  IF FEq(Q, FZero)
  THEN [err |-> [kind |-> "ZeroDivisionError", msg |-> "float division by zero"],
        q_res |-> << >>, Q |-> Q]
  ELSE IF IsNaN(Q) \/ \E k \in 1..Len(residuals) : IsNaN(residuals[k])
  THEN [err |-> ValueError("cannot convert float NaN to integer"),
        q_res |-> << >>, Q |-> Q]
  ELSE [err |-> NoError,
        q_res |-> [k \in 1..Len(residuals) |-> round_quotient(residuals[k], Q)],
        Q |-> Q]

quantize_residuals(residuals, C_Q, Q_MIN) ==
  IF residuals = << >> THEN [err |-> NoError, q_res |-> << >>, Q |-> Q_MIN]
  ELSE quantize_with_step(residuals, quant_step(residuals, C_Q, Q_MIN))

(***************************************************************************)
(* Segmentation                                                            *)
(***************************************************************************)
\* a segment end that is not clamped to the series: start + segment_length - 1
fixed_segment_end_unclamped(start, segment_length, n_points) ==
  (start + segment_length) - 1

\* an end computed without the segment length: min(start, n_points) - 1
fixed_segment_end_stalled(start, segment_length, n_points) ==
  Min(start, n_points) - 1

\* an end that is start + segment_length itself, clamped to the last index
fixed_segment_end_inclusive(start, segment_length, n_points) ==
  Min(start + segment_length, n_points - 1)

\* end = min(start + segment_length, n_points) - 1
fixed_segment_end(start, segment_length, n_points) ==
  Min(start + segment_length, n_points) - 1

_build_preds_for_segmentation(x_seg, predictor_type, mean, slope, intercept, seed_value) ==
  IF predictor_type = 0 THEN predict_mean_const(Len(x_seg), mean)
  ELSE IF predictor_type = 1 THEN predict_linear(Len(x_seg), slope, intercept)
  ELSE predict_random_walk(x_seg, seed_value)

\* sum((v - p) ** 2 for v, p in zip(xs, ps)) / length, and 0.0 for length 0
mse_of(xs, ps) ==
  IF Len(xs) = 0 THEN FZero
  ELSE FDiv(FSum([k \in 1..Len(xs) |-> FMul(FSub(xs[k], ps[k]), FSub(xs[k], ps[k]))]),
            FI(Len(xs)))

\* seed_value = x_seg[0] if x_seg else 0.0
seed_of(x_seg) == IF x_seg # << >> THEN x_seg[1] ELSE FZero

\* the MSE of the model fitted to x_seg, from its stats
probe_mse_of_stats(x_seg, predictor_type, st) ==
  mse_of(x_seg, _build_preds_for_segmentation(x_seg, predictor_type, st.mean,
                                              st.slope, st.intercept,
                                              seed_of(x_seg)))

probe_mse_of_segment(x_seg, predictor_type) ==
  probe_mse_of_stats(x_seg, predictor_type, compute_stats(x_seg))

\* the MSE the adaptive segmentation computes for values[start..end]
probe_mse(values, predictor_type, start, end) ==
  probe_mse_of_segment(Slice(values, start, end + 1), predictor_type)

\* the first end of a new adaptive segment: min(start + min_len, n) - 1
adaptive_first_end(start, min_len, n) == Min(start + min_len, n) - 1

\* an extension test that lets a segment of max_len samples grow once more
adaptive_may_extend_past(start, end, n, max_len) ==
  (end + 1) < n /\ ((end - start) + 1) <= max_len

\* if (end + 1) < n and (end - start + 1) < max_len: the segment grows by one
adaptive_may_extend(start, end, n, max_len) ==
  (end + 1) < n /\ ((end - start) + 1) < max_len

(***************************************************************************)
(* Encoding one segment (the body of the loop over segment_ranges)         *)
(***************************************************************************)
\* x_hat[i] = preds[i] + q_res[i] * Q
dequantize_add(preds, q_res, Q) ==
  [k \in 1..Len(q_res) |-> FAdd(preds[k], FMul(FI(q_res[k]), Q))]

\* the iterative random-walk reconstruction: x_hat[0] = seed + q[0] * Q,
\* x_hat[i] = x_hat[i - 1] + q[i] * Q
RECURSIVE rw_reconstruct(_, _, _)
rw_reconstruct(prev, q_res, Q) ==
  IF q_res = << >> THEN << >>
  ELSE LET cur == FAdd(prev, FMul(FI(q_res[1]), Q))
       IN  <<cur>> \o rw_reconstruct(cur, Tail(q_res), Q)

\* residuals = [v - p for v, p in zip(x_seg, preds)]
residuals_of(x_seg, preds) == [k \in 1..Len(x_seg) |-> FSub(x_seg[k], preds[k])]

\* the local decode of one 'auto' candidate and its MSE
candidate_mse(x_seg, cand_type, seed_value, preds_c, qz) ==
  [err |-> qz.err,
   mse |-> IF qz.err # NoError THEN NaN
           ELSE mse_of(x_seg, IF cand_type = 2
                              THEN rw_reconstruct(seed_value, IntsOf(qz.q_res), qz.Q)
                              ELSE dequantize_add(preds_c, IntsOf(qz.q_res), qz.Q))]

candidate_of_preds(x_seg, cand_type, seed_value, preds_c, C_Q, Q_MIN) ==
  candidate_mse(x_seg, cand_type, seed_value, preds_c,
                quantize_residuals(residuals_of(x_seg, preds_c), C_Q, Q_MIN))

\* one candidate of the 'auto' selection: quantize, decode locally, MSE
auto_candidate(x_seg, cand_type, st, seed_value, C_Q, Q_MIN) ==
  candidate_of_preds(x_seg, cand_type, seed_value,
                     _build_preds_for_segmentation(x_seg, cand_type, st.mean,
                                                   st.slope, st.intercept,
                                                   seed_value),
                     C_Q, Q_MIN)

\* a comparison that also replaces the best candidate on equal MSE
auto_better_or_equal(best, cand_type, mse_c) ==
  IF (best.type = -1 /\ ~IsNaN(mse_c)) \/ (best.type # -1 /\ FLe(mse_c, best.mse))
  THEN [type |-> cand_type, mse |-> mse_c]
  ELSE best

\* if mse_c < best_mse: best_mse, best_type = mse_c, cand_type
\* (best.type = -1 stands for best_type None and best_mse = inf)
auto_better(best, cand_type, mse_c) ==
  IF (best.type = -1 /\ ~IsNaN(mse_c)) \/ (best.type # -1 /\ FLt(mse_c, best.mse))
  THEN [type |-> cand_type, mse |-> mse_c]
  ELSE best

\* if best_type is None: best_type = 0
auto_default(best) == IF best.type = -1 THEN 0 ELSE best.type

\* the loop over the candidates (0, 1, 2), from the three candidates
auto_pick(c0, c1, c2) ==
  IF c0.err # NoError THEN [err |-> c0.err, type |-> 0]
  ELSE IF c1.err # NoError THEN [err |-> c1.err, type |-> 0]
  ELSE IF c2.err # NoError THEN [err |-> c2.err, type |-> 0]
  ELSE [err |-> NoError,
        type |-> auto_default(
                   auto_better(auto_better(auto_better([type |-> -1, mse |-> FZero],
                                                       0, c0.mse),
                                           1, c1.mse),
                               2, c2.mse))]

auto_select(x_seg, st, seed_value, C_Q, Q_MIN) ==
  auto_pick(auto_candidate(x_seg, 0, st, seed_value, C_Q, Q_MIN),
            auto_candidate(x_seg, 1, st, seed_value, C_Q, Q_MIN),
            auto_candidate(x_seg, 2, st, seed_value, C_Q, Q_MIN))

predictor_map(predictor) ==
  IF predictor = "mean" THEN 0
  ELSE IF predictor = "linear" THEN 1
  ELSE IF predictor = "rw" THEN 2
  ELSE -1

\* the SegmentEntry, the quantized residuals and the predictions of one segment
segment_result(start, end, st, seed_value, sel, preds, qz) ==
  [err |-> IF sel.err # NoError THEN sel.err ELSE qz.err,
   seg |-> [start_idx |-> start, end_idx |-> end, predictor_type |-> sel.type,
            mean |-> st.mean, slope |-> st.slope, intercept |-> st.intercept,
            quant_step_Q |-> qz.Q, seed_value |-> seed_value],
   q_res |-> IF sel.err # NoError THEN << >> ELSE qz.q_res,
   preds |-> preds]

\* the final residuals of the segment are quantized
segment_of_preds(x_seg, start, end, o, st, seed_value, sel, preds) ==
  segment_result(start, end, st, seed_value, sel, preds,
                 quantize_residuals(residuals_of(x_seg, preds), o.C_Q, o.Q_MIN))

\* the final predictions of the segment, by its predictor type
segment_of_type(x_seg, start, end, o, st, seed_value, sel) ==
  segment_of_preds(x_seg, start, end, o, st, seed_value, sel,
                   _build_preds_for_segmentation(x_seg, sel.type, st.mean, st.slope,
                                                 st.intercept, seed_value))

\* the predictor type of the segment: the caller's, or the 'auto' selection
segment_of_stats(x_seg, start, end, o, st, seed_value) ==
  segment_of_type(x_seg, start, end, o, st, seed_value,
                  IF o.predictor = "auto"
                  THEN auto_select(x_seg, st, seed_value, o.C_Q, o.Q_MIN)
                  ELSE [err |-> NoError, type |-> predictor_map(o.predictor)])

segment_of_values(x_seg, start, end, o) ==
  segment_of_stats(x_seg, start, end, o, compute_stats(x_seg), seed_of(x_seg))

\* one iteration of "for start, end in segment_ranges"
encode_segment(values, start, end, o) ==
  segment_of_values(Slice(values, start, end + 1), start, end, o)

(***************************************************************************)
(* Context JSON.  A text is a sequence of characters; json.dumps writes    *)
(* ASCII only, so its UTF-8 encoding has one byte per character.  The      *)
(* character "U+00E9" stands for a non-ASCII character.                    *)
(***************************************************************************)
DigitChars == <<"0", "1", "2", "3", "4", "5", "6", "7", "8", "9">>

DigitOf(c) == CHOOSE k \in 0..9 : DigitChars[k + 1] = c

IsDigitChar(c) == \E k \in 1..10 : DigitChars[k] = c

\* the decimal digits of k >= 0
RECURSIVE IntDigits(_)
IntDigits(k) ==
  IF k < 10 THEN <<DigitChars[k + 1]>>
  ELSE IntDigits(k \div 10) \o <<DigitChars[(k % 10) + 1]>>

\* the decimal digits of num/den < 1 (a terminating decimal)
RECURSIVE FracDigits(_, _)
FracDigits(num, den) ==
  IF num = 0 THEN << >>
  ELSE <<DigitChars[((num * 10) \div den) + 1]>> \o FracDigits((num * 10) % den, den)

\* a float written without its fractional part
float_repr_integer_part_only(x) ==
  IF IsNaN(x) THEN <<"N", "a", "N">>
  ELSE (IF x.n < 0 THEN <<"-">> ELSE << >>) \o IntDigits(Abs(x.n) \div x.d)

\* float.__repr__ as json.dumps uses it, for |x| in [1e-4, 1e16)
float_repr(x) ==
  IF IsNaN(x) THEN <<"N", "a", "N">>
  ELSE LET ip == Abs(x.n) \div x.d
           fp == Abs(x.n) % x.d
       IN  (IF x.n < 0 THEN <<"-">> ELSE << >>)
           \o IntDigits(ip) \o <<".">>
           \o (IF fp = 0 THEN <<"0">> ELSE FracDigits(fp, x.d))

\* json.dumps of one character of a string (ensure_ascii)
json_escape_char(c) ==
  IF c = "\"" THEN <<"\\", "\"">>
  ELSE IF c = "\\" THEN <<"\\", "\\">>
  ELSE IF c = "U+00E9" THEN <<"\\", "u", "0", "0", "e", "9">>
  ELSE <<c>>

RECURSIVE json_escape(_)
json_escape(str) ==
  IF str = << >> THEN << >> ELSE json_escape_char(str[1]) \o json_escape(Tail(str))

json_string(str) == <<"\"">> \o json_escape(str) \o <<"\"">>

\* {"sampling":{"dt":
CTX_LIT_DT ==
  <<"{", "\"", "s", "a", "m", "p", "l", "i", "n", "g", "\"", ":",
    "{", "\"", "d", "t", "\"", ":">>

\* ,"t0":
CTX_LIT_T0 == <<",", "\"", "t", "0", "\"", ":">>

\* },"unit":
CTX_LIT_UNIT == <<"}", ",", "\"", "u", "n", "i", "t", "\"", ":">>

build_context_json(t) ==
  CTX_LIT_DT \o float_repr(t.dt) \o CTX_LIT_T0 \o json_string(t.t0)
  \o CTX_LIT_UNIT \o json_string(t.unit) \o <<"}">>

\* text[pos:] starts with lit (pos 0-based)
HasPrefix(text, pos, lit) ==
  /\ pos + Len(lit) <= Len(text)
  /\ \A k \in 1..Len(lit) : text[pos + k] = lit[k]

\* the end (exclusive) of the number literal that starts at pos
RECURSIVE number_end(_, _)
number_end(text, pos) ==
  IF pos < Len(text)
     /\ (IsDigitChar(text[pos + 1]) \/ text[pos + 1] \in {".", "-", "N", "a"})
  THEN number_end(text, pos + 1)
  ELSE pos

RECURSIVE DigitsToInt(_)
DigitsToInt(cs) ==
  IF cs = << >> THEN 0 ELSE (10 * DigitsToInt(SubSeq(cs, 1, Len(cs) - 1))) + DigitOf(cs[Len(cs)])

RECURSIVE Pow10(_)
Pow10(k) == IF k <= 0 THEN 1 ELSE 10 * Pow10(k - 1)

\* float(<the number a JSON literal denotes>): [ok, val]
parse_number(cs) ==
  LET neg  == cs # << >> /\ cs[1] = "-"
      body == IF neg THEN Tail(cs) ELSE cs
      dots == {k \in 1..Len(body) : body[k] = "."}
      dot  == IF dots = {} THEN Len(body) + 1 ELSE CHOOSE k \in dots : TRUE
      ip   == SubSeq(body, 1, dot - 1)
      fp   == SubSeq(body, dot + 1, Len(body))
      wellformed ==
        /\ ip # << >>
        /\ Cardinality(dots) <= 1
        /\ dots # {} => fp # << >>
        /\ \A k \in 1..Len(body) : k # dot => IsDigitChar(body[k])
        /\ Len(ip) > 1 => ip[1] # "0"
      mag  == Frac((DigitsToInt(ip) * Pow10(Len(fp))) + DigitsToInt(fp), Pow10(Len(fp)))
  IN  IF cs = <<"N", "a", "N">> THEN [ok |-> TRUE, val |-> NaN]
      ELSE IF ~wellformed THEN [ok |-> FALSE, val |-> NaN]
      ELSE [ok |-> TRUE, val |-> IF neg THEN FNeg(mag) ELSE mag]

\* the characters of a JSON string whose opening quote is before pos:
\* [ok, val, pos], pos the position after the closing quote
RECURSIVE parse_string_loop(_, _, _)
parse_string_loop(text, pos, acc) ==
  IF pos >= Len(text) THEN [ok |-> FALSE, val |-> acc, pos |-> pos]
  ELSE LET c == text[pos + 1]
       IN  IF c = "\"" THEN [ok |-> TRUE, val |-> acc, pos |-> pos + 1]
           ELSE IF c # "\\" THEN parse_string_loop(text, pos + 1, Append(acc, c))
           ELSE IF HasPrefix(text, pos + 1, <<"\"">>)
                THEN parse_string_loop(text, pos + 2, Append(acc, "\""))
           ELSE IF HasPrefix(text, pos + 1, <<"\\">>)
                THEN parse_string_loop(text, pos + 2, Append(acc, "\\"))
           ELSE IF HasPrefix(text, pos + 1, <<"u", "0", "0", "e", "9">>)
                THEN parse_string_loop(text, pos + 6, Append(acc, "U+00E9"))
           ELSE [ok |-> FALSE, val |-> acc, pos |-> pos]

parse_string(text, pos) ==
  IF HasPrefix(text, pos, <<"\"">>) THEN parse_string_loop(text, pos + 1, << >>)
  ELSE [ok |-> FALSE, val |-> << >>, pos |-> pos]

\* json.loads(ctx_bytes.decode("utf-8")) and the three ctx.get(...) lines, for
\* the texts of the shape build_context_json writes; any other text of the
\* model is no JSON document
parse_context(text) ==
  LET p1   == Len(CTX_LIT_DT)
      p2   == number_end(text, p1)
      num  == parse_number(Slice(text, p1, p2))
      p3   == p2 + Len(CTX_LIT_T0)
      t0s  == parse_string(text, p3)
      p4   == t0s.pos + Len(CTX_LIT_UNIT)
      us   == parse_string(text, p4)
      ok   == /\ HasPrefix(text, 0, CTX_LIT_DT)
              /\ num.ok
              /\ HasPrefix(text, p2, CTX_LIT_T0)
              /\ t0s.ok
              /\ HasPrefix(text, t0s.pos, CTX_LIT_UNIT)
              /\ us.ok
              /\ HasPrefix(text, us.pos, <<"}">>)
              /\ us.pos + 1 = Len(text)
  IN  IF ok THEN [err |-> NoError, dt |-> num.val, t0 |-> t0s.val, unit |-> us.val]
      ELSE [err |-> ValueError("JSONDecodeError"), dt |-> NaN, t0 |-> << >>,
            unit |-> << >>]

(***************************************************************************)
(* Binary layout                                                           *)
(***************************************************************************)
\* struct.Struct("<4sHHIIIII").size
FILE_HEADER_SIZE == 28

\* struct.Struct("<6Iddddd").size
SEGMENT_ENTRY_SIZE == 64

\* struct.Struct("<IIII").size
RESIDUAL_SECTION_HEADER_SIZE == 16

\* struct.Struct("<III").size
RESIDUAL_BLOCK_HEADER_SIZE == 12

MAX_N_POINTS == 10000000

MAX_N_SEGMENTS == 1000000

\* struct.pack(f"<{seg_len}i", *q_res) raises struct.error for an argument
\* outside -2^31 .. 2^31 - 1
pack_out_of_range(q_res) == \E i \in 1..Len(q_res) : ~IsInt32(q_res[i])

PackError ==
  [kind |-> "struct.error",
   msg |-> "'i' format requires -2147483648 <= number <= 2147483647"]

\* struct.pack("<i", v): four bytes, little-endian two's complement
pack_i32(v) ==
  <<v % 256, (v \div 256) % 256, (v \div 65536) % 256, (v \div 16777216) % 256>>

RECURSIVE pack_i32_list(_)
pack_i32_list(vs) ==
  IF vs = << >> THEN << >> ELSE pack_i32(vs[1]) \o pack_i32_list(Tail(vs))

\* struct.unpack("<i", b)
unpack_i32(b) ==
  b[1] + (256 * b[2]) + (65536 * b[3])
  + (16777216 * (IF b[4] >= 128 THEN b[4] - 256 ELSE b[4]))

\* list(struct.unpack(f"<{seg_len}i", block_bytes)), for len(block_bytes) = 4 * seg_len
unpack_i32_list(bytes, seg_len) ==
  [k \in 1..seg_len |-> unpack_i32(SubSeq(bytes, (4 * k) - 3, 4 * k))]

RECURSIVE encode_int_list_varint(_)
encode_int_list_varint(values) ==
  IF values = << >> THEN << >>
  ELSE _encode_varint(zigzag_encode(values[1])).bytes
       \o encode_int_list_varint(Tail(values))

\* the loop of decode_int_list_varint: [err, out]
RECURSIVE decode_int_list_loop(_, _, _, _)
decode_int_list_loop(bytes, length, offset, out) ==
  IF length <= 0 THEN [err |-> NoError, out |-> out]
  ELSE LET r == _decode_varint(bytes, offset)
       IN  IF r.err # "" THEN [err |-> ValueError(r.err), out |-> out]
           ELSE decode_int_list_loop(bytes, length - 1, r.offset,
                                     Append(out, ToInt(zigzag_decode(r.value))))

\* a decoder that refuses a block with bytes after the last value
decode_int_list_varint_strict(bytes, length) ==
  IF /\ decode_int_list_loop(bytes, length, 0, << >>).err = NoError
     /\ encode_int_list_varint(
          WideOf(decode_int_list_loop(bytes, length, 0, << >>).out)) # bytes
  THEN [err |-> ValueError("Trailing bytes"), out |-> << >>]
  ELSE decode_int_list_loop(bytes, length, 0, << >>)

decode_int_list_varint(bytes, length) == decode_int_list_loop(bytes, length, 0, << >>)

\* the buffer before anything is written to it
EmptyBuffer ==
  [len |-> 0, magic |-> "", version |-> 0, flags |-> 0, header_len |-> 0,
   n_points |-> 0, n_segments |-> 0, ctx |-> << >>, segs |-> << >>,
   coding_type |-> 0, blocks |-> << >>]

\* a residual block whose byte_len is the number of residuals
residual_block_counting(seg_id, q_res, ct) ==
  [seg_id |-> seg_id, seg_len |-> Len(q_res), byte_len |-> Len(q_res),
   payload |-> IF ct = 0 THEN pack_i32_list(IntsOf(q_res))
               ELSE encode_int_list_varint(q_res)]

\* the residual block of segment seg_id under coding_type
residual_block(seg_id, q_res, ct) ==
  LET payload == IF ct = 0 THEN pack_i32_list(IntsOf(q_res))
                 ELSE encode_int_list_varint(q_res)
  IN  [seg_id |-> seg_id, seg_len |-> Len(q_res),
       byte_len |-> IF ct = 0 THEN Len(q_res) * 4 ELSE Len(payload),
       payload |-> payload]

RECURSIVE BlocksSize(_)
BlocksSize(bs) ==
  IF bs = << >> THEN 0
  ELSE RESIDUAL_BLOCK_HEADER_SIZE + Len(bs[1].payload) + BlocksSize(Tail(bs))

(***************************************************************************)
(* Decoding: the pure parts of decode_timeseries                           *)
(***************************************************************************)
StructError == [kind |-> "struct.error", msg |-> "unpack requires a buffer of more bytes"]

IndexError == [kind |-> "IndexError", msg |-> "list assignment index out of range"]

\* STRUCT.unpack_from(data, offset) finds size bytes at offset
can_unpack(d, off, size) == off + size <= d.len

\* if len(data) < FILE_HEADER_STRUCT.size
header_too_short(d) == d.len < FILE_HEADER_SIZE

\* the header checks with the version tested before the magic
header_field_error_version_first(d) ==
  IF d.version # 1 THEN ValueError("Unsupported LSG2 version")
  ELSE IF d.magic # "LSG2" THEN ValueError("Invalid magic, not an LSG2 file")
  ELSE IF d.n_points < 0 \/ d.n_points > MAX_N_POINTS
       THEN ValueError("Suspicious n_points")
  ELSE IF d.n_segments < 0 \/ d.n_segments > MAX_N_SEGMENTS
       THEN ValueError("Suspicious n_segments")
  ELSE IF d.header_len < 0 \/ d.header_len > d.len - FILE_HEADER_SIZE
       THEN ValueError("header_len is inconsistent with data size")
  ELSE NoError

\* the header checks with n_points = 10,000,000 refused as well
header_field_error_points_inclusive(d) ==
  IF d.magic # "LSG2" THEN ValueError("Invalid magic, not an LSG2 file")
  ELSE IF d.version # 1 THEN ValueError("Unsupported LSG2 version")
  ELSE IF d.n_points < 0 \/ d.n_points >= MAX_N_POINTS
       THEN ValueError("Suspicious n_points")
  ELSE IF d.n_segments < 0 \/ d.n_segments > MAX_N_SEGMENTS
       THEN ValueError("Suspicious n_segments")
  ELSE IF d.header_len < 0 \/ d.header_len > d.len - FILE_HEADER_SIZE
       THEN ValueError("header_len is inconsistent with data size")
  ELSE NoError

\* the checks on the unpacked header, in the order of the code
header_field_error(d) ==
  IF d.magic # "LSG2" THEN ValueError("Invalid magic, not an LSG2 file")
  ELSE IF d.version # 1 THEN ValueError("Unsupported LSG2 version")
  ELSE IF d.n_points < 0 \/ d.n_points > MAX_N_POINTS
       THEN ValueError("Suspicious n_points")
  ELSE IF d.n_segments < 0 \/ d.n_segments > MAX_N_SEGMENTS
       THEN ValueError("Suspicious n_segments")
  ELSE IF d.header_len < 0 \/ d.header_len > d.len - FILE_HEADER_SIZE
       THEN ValueError("header_len is inconsistent with data size")
  ELSE NoError

\* a segment table read without its length check
segment_entry_too_short_unchecked(d, off) == FALSE

\* if len(data) < offset + SEGMENT_ENTRY_STRUCT.size
segment_entry_too_short(d, off) == d.len < off + SEGMENT_ENTRY_SIZE

\* the loop that reads the segment table: k entries read so far
RECURSIVE read_segment_table(_, _, _, _)
read_segment_table(d, off, n_segments, acc) ==
  IF Len(acc) >= n_segments THEN [err |-> NoError, segments |-> acc, offset |-> off]
  ELSE IF segment_entry_too_short(d, off)
       THEN [err |-> ValueError("Data too short for segment table"),
             segments |-> acc, offset |-> off]
  ELSE IF ~can_unpack(d, off, SEGMENT_ENTRY_SIZE) \/ Len(acc) >= Len(d.segs)
       THEN [err |-> StructError, segments |-> acc, offset |-> off]
  ELSE read_segment_table(d, off + SEGMENT_ENTRY_SIZE, n_segments,
                          Append(acc, d.segs[Len(acc) + 1]))

\* a table of residual lists indexed by the position of the block in the file
residual_slot_positional(seg_id, position) == position

\* q_res_segments[seg_id] = q_res: the index of the list of the block read at
\* the given position
residual_slot(seg_id, position) == seg_id

\* one iteration of the loop over the residual blocks: [err, seg_id, q_res, offset]
read_residual_block(d, off, k, n_segments, ct) ==
  LET b      == d.blocks[k + 1]
      off1   == off + RESIDUAL_BLOCK_HEADER_SIZE
      block_bytes == Slice(b.payload, 0, Min(b.byte_len, Max(d.len - off1, 0)))
      vr     == decode_int_list_varint(block_bytes, b.seg_len)
      fail(e) == [err |-> e, seg_id |-> 0, q_res |-> << >>, offset |-> off]
  IN  IF d.len < off + RESIDUAL_BLOCK_HEADER_SIZE
      THEN fail(ValueError("Data too short for residual block header"))
      ELSE IF ~can_unpack(d, off, RESIDUAL_BLOCK_HEADER_SIZE) \/ k >= Len(d.blocks)
      THEN fail(StructError)
      ELSE IF b.seg_id < 0 \/ b.seg_id >= n_segments
      THEN fail(ValueError("Invalid seg_id in residual block"))
      ELSE IF b.seg_len < 0 \/ b.byte_len < 0
      THEN fail(ValueError("Negative seg_len/byte_len in residual block"))
      ELSE IF d.len < off1 + b.byte_len
      THEN fail(ValueError("Data too short for residual block data"))
      ELSE IF ct = 0
      THEN IF b.seg_len * 4 # b.byte_len
           THEN fail(ValueError("byte_len != seg_len * 4 for raw residuals"))
           ELSE IF Len(block_bytes) # 4 * b.seg_len THEN fail(StructError)
           ELSE [err |-> NoError, seg_id |-> b.seg_id,
                 q_res |-> unpack_i32_list(block_bytes, b.seg_len),
                 offset |-> off1 + b.byte_len]
      ELSE IF vr.err # NoError THEN fail(vr.err)
      ELSE [err |-> NoError, seg_id |-> b.seg_id, q_res |-> vr.out,
            offset |-> off1 + b.byte_len]

(***************************************************************************)
(* classify_segment_pattern and extract_motifs                             *)
(***************************************************************************)
SLOPE_FLAT == Frac(1, 500)

SLOPE_TREND == Frac(1, 100)

Q_LOW == Frac(1, 20)

Q_HIGH == Frac(3, 10)

\* abs(x)
FAbs(x) == IF IsNaN(x) THEN NaN ELSE [n |-> Abs(x.n), d |-> x.d]

\* seg.end_idx - seg.start_idx + 1
segment_span(seg) == (seg.end_idx - seg.start_idx) + 1

\* the pattern of a segment of positive length
pattern_of(a_slope, Q, predictor_type) ==
  IF FLt(a_slope, SLOPE_FLAT) /\ FLt(Q, Q_LOW) THEN "flat"
  ELSE IF predictor_type = 1 /\ FLe(SLOPE_TREND, a_slope) THEN "trend"
  ELSE IF predictor_type \in {1, 2} /\ FLe(Q_LOW, Q) /\ FLe(Q, Q_HIGH)
  THEN "oscillation"
  ELSE "noisy"

\* energy = (a_slope * length) + (Q * length)
energy_of(a_slope, Q, span) ==
  FAdd(FMul(a_slope, FI(span)), FMul(Q, FI(span)))

salience_of(energy) ==
  IF FLt(energy, FI(1)) THEN 0 ELSE IF FLt(energy, FI(5)) THEN 1 ELSE 2

classify_segment_pattern(seg) ==
  IF segment_span(seg) <= 0
  THEN [pattern |-> "flat", salience |-> 0, energy |-> FZero]
  ELSE [pattern |-> pattern_of(FAbs(seg.slope), seg.quant_step_Q, seg.predictor_type),
        salience |-> salience_of(energy_of(FAbs(seg.slope), seg.quant_step_Q,
                                           segment_span(seg))),
        energy |-> energy_of(FAbs(seg.slope), seg.quant_step_Q, segment_span(seg))]

\* Motif(start_seg=cur_start, end_seg=..., pattern=cur_pattern, ...)
Motif(cur, end_seg) ==
  [start_seg |-> cur.cur_start, end_seg |-> end_seg, pattern |-> cur.cur_pattern,
   total_len |-> cur.cur_len, total_energy |-> cur.cur_energy]

\* a motif that is closed at the segment idx that starts the next one
motif_end_at_next(idx) == idx

\* the last segment of the motif that is closed when segment idx starts a new
\* one: end_seg = idx - 1
motif_end_before(idx) == idx - 1

\* the locals cur_start, cur_pattern, cur_len, cur_energy of a motif that
\* starts at segment idx
motif_opened(idx, seg) ==
  [cur_start |-> idx, cur_pattern |-> classify_segment_pattern(seg).pattern,
   cur_len |-> segment_span(seg), cur_energy |-> classify_segment_pattern(seg).energy]

\* the same locals after a segment of the same pattern
motif_continued(cur, seg) ==
  [cur EXCEPT !.cur_len = @ + segment_span(seg),
              !.cur_energy = FAdd(@, classify_segment_pattern(seg).energy)]

\* for idx, seg in enumerate(segments[1:], start=1), then the last motif
RECURSIVE motifs_loop(_, _, _, _)
motifs_loop(segs, idx, cur, out) ==
  IF idx >= Len(segs) THEN Append(out, Motif(cur, Len(segs) - 1))
  ELSE IF classify_segment_pattern(segs[idx + 1]).pattern = cur.cur_pattern
  THEN motifs_loop(segs, idx + 1, motif_continued(cur, segs[idx + 1]), out)
  ELSE motifs_loop(segs, idx + 1, motif_opened(idx, segs[idx + 1]),
                   Append(out, Motif(cur, motif_end_before(idx))))

extract_motifs(segs) ==
  IF segs = << >> THEN << >>
  ELSE motifs_loop(segs, 1, motif_opened(0, segs[1]), << >>)

(***************************************************************************)
(* read_lsg2_metadata_and_segments (the inspect operation of the CLI)      *)
(***************************************************************************)
NoMeta == [dt |-> FZero, t0 |-> << >>, unit |-> << >>]

\* read_lsg2_metadata_and_segments has not been called
NoInspection ==
  [pc |-> "idle", err |-> NoError, offset |-> 0, ctx |-> NoMeta, n_points |-> 0,
   segments |-> << >>, coding_type |-> 0]

\* read_lsg2_metadata_and_segments raised e with its local offset at off
inspect_raise(e, off) == [NoInspection EXCEPT !.pc = "raised", !.err = e, !.offset = off]

\* a return that reports coding_type 0 whatever the residual section header holds
inspect_return_raw(d, ctx, r) ==
  [pc |-> "returned", err |-> NoError, offset |-> r.offset,
   ctx |-> [dt |-> ctx.dt, t0 |-> ctx.t0, unit |-> ctx.unit],
   n_points |-> d.n_points, segments |-> r.segments, coding_type |-> 0]

\* return ctx, n_points, segments, coding_type: coding_type is unpacked at
\* offset, which is left at the start of the residual section header
inspect_return(d, ctx, r) ==
  [pc |-> "returned", err |-> NoError, offset |-> r.offset,
   ctx |-> [dt |-> ctx.dt, t0 |-> ctx.t0, unit |-> ctx.unit],
   n_points |-> d.n_points, segments |-> r.segments,
   coding_type |-> d.coding_type]

\* after the loop over the segment table r: the residual section header
inspect_residual_header(d, ctx, r) ==
  IF r.err # NoError THEN inspect_raise(r.err, r.offset)
  ELSE IF d.len < r.offset + RESIDUAL_SECTION_HEADER_SIZE
  THEN inspect_raise(ValueError("Data too short for residual section header"),
                     r.offset)
  ELSE inspect_return(d, ctx, r)

\* after json.loads: the segment table
inspect_segment_table(d, ctx) ==
  IF ctx.err # NoError THEN inspect_raise(ctx.err, FILE_HEADER_SIZE + d.header_len)
  ELSE inspect_residual_header(
         d, ctx, read_segment_table(d, FILE_HEADER_SIZE + d.header_len,
                                    d.n_segments, << >>))

\* the whole of read_lsg2_metadata_and_segments(data)
read_lsg2_metadata_and_segments(d) ==
  IF header_too_short(d)
  THEN inspect_raise(ValueError("Data too short to contain header"), 0)
  ELSE IF ~can_unpack(d, 0, FILE_HEADER_SIZE) THEN inspect_raise(StructError, 0)
  ELSE IF header_field_error(d) # NoError
  THEN inspect_raise(header_field_error(d), FILE_HEADER_SIZE)
  ELSE IF d.len < FILE_HEADER_SIZE + d.header_len
  THEN inspect_raise(ValueError("Data too short for context JSON"), FILE_HEADER_SIZE)
  ELSE inspect_segment_table(d, parse_context(Slice(d.ctx, 0, d.header_len)))

\* x_hat = [0.0] * n_points: n the length, w the values written so far (every
\* other index holds 0.0), cnt the number of writes to each written index
NoOutput == [alloc |-> FALSE, n |-> 0, w |-> << >>, cnt |-> << >>]

alloc_output(n_points) == [alloc |-> TRUE, n |-> n_points, w |-> << >>, cnt |-> << >>]

\* x_hat[j] = v
write_output(xh, j, v) ==
  [xh EXCEPT !.w   = [i \in (DOMAIN xh.w) \cup {j} |-> IF i = j THEN v ELSE xh.w[i]],
             !.cnt = [i \in (DOMAIN xh.cnt) \cup {j} |->
                        IF i = j THEN (IF j \in DOMAIN xh.cnt THEN xh.cnt[j] + 1 ELSE 1)
                        ELSE xh.cnt[i]]]

\* x_hat[start + i] = vals[i] for i in range(len(vals)), in order
RECURSIVE write_values(_, _, _)
write_values(xh, start, vals) ==
  IF vals = << >> THEN [err |-> NoError, x_hat |-> xh]
  ELSE IF start >= xh.n THEN [err |-> IndexError, x_hat |-> xh]
  ELSE write_values(write_output(xh, start, vals[1]), start + 1, Tail(vals))

\* if length != len(q_res)
segment_length_mismatch(length, q_res) == length # Len(q_res)

\* a reconstruction that takes every unknown predictor_type for random-walk
reconstruct_segment_lenient(xh, seg, q_res) ==
  IF segment_length_mismatch((seg.end_idx - seg.start_idx) + 1, q_res)
  THEN [err |-> ValueError("Segment length mismatch"), x_hat |-> xh]
  ELSE write_values(
         xh, seg.start_idx,
         IF seg.predictor_type = 0
         THEN dequantize_add(predict_mean_const(Len(q_res), seg.mean), q_res,
                             seg.quant_step_Q)
         ELSE IF seg.predictor_type = 1
         THEN dequantize_add(predict_linear(Len(q_res), seg.slope, seg.intercept),
                             q_res, seg.quant_step_Q)
         ELSE rw_reconstruct(seg.seed_value, q_res, seg.quant_step_Q))

\* one iteration of the reconstruction loop
reconstruct_segment(xh, seg, q_res) ==
  LET length == (seg.end_idx - seg.start_idx) + 1
      Q      == seg.quant_step_Q
      vals   == IF seg.predictor_type = 0
                THEN dequantize_add(predict_mean_const(length, seg.mean), q_res, Q)
                ELSE IF seg.predictor_type = 1
                THEN dequantize_add(predict_linear(length, seg.slope, seg.intercept),
                                    q_res, Q)
                ELSE rw_reconstruct(seg.seed_value, q_res, Q)
  IN  IF segment_length_mismatch(length, q_res)
      THEN [err |-> ValueError("Segment length mismatch"), x_hat |-> xh]
      ELSE IF seg.predictor_type \notin {0, 1, 2}
      THEN [err |-> ValueError("Unknown predictor_type"), x_hat |-> xh]
      ELSE write_values(xh, seg.start_idx, vals)

(***************************************************************************)
(* State.  encode_timeseries: its arguments (ts, opts), its position epc,  *)
(* the exception it raised (eerr), the locals of the segmentation loops,   *)
(* the per-segment lists it builds and its output buffer buf.              *)
(* preds_segments records the list preds of each iteration.                *)
(* decode_timeseries: its argument data, its position dpc, the exception   *)
(* it raised (derr) and its locals.                                        *)
(* The integer pipeline: one Python int zin through zigzag_encode,         *)
(* _encode_varint, _decode_varint and zigzag_decode.                       *)
(* read_lsg2_metadata_and_segments: its position, the exception it raised, *)
(* its local offset and the tuple it returns, in the record insp.          *)
(***************************************************************************)
VARIABLES ts, opts, epc, eerr, segment_ranges, seg_start, seg_end, best_end,
          segments, q_resid_segments, preds_segments, buf,
          data, dpc, derr, offset, hdr, meta, dsegments, dcoding,
          q_res_segments, blk, x_hat, seg_id,
          ipc, zin, zz, venc, vdec, zout, insp, mpc, motifs

inVars == <<ts, opts, prec>>

loopVars == <<segment_ranges, seg_start, seg_end, best_end>>

fitVars == <<segments, q_resid_segments, preds_segments>>

encVars == <<ts, opts, prec, epc, eerr, segment_ranges, seg_start, seg_end, best_end,
             segments, q_resid_segments, preds_segments, buf>>

decVars == <<dpc, derr, offset, hdr, meta, dsegments, dcoding, q_res_segments,
             blk, x_hat, seg_id>>

intVars == <<ipc, zin, zz, venc, vdec, zout>>

vars == <<ts, opts, prec, epc, eerr, segment_ranges, seg_start, seg_end, best_end,
          segments, q_resid_segments, preds_segments, buf,
          data, dpc, derr, offset, hdr, meta, dsegments, dcoding,
          q_res_segments, blk, x_hat, seg_id,
          ipc, zin, zz, venc, vdec, zout, insp, mpc, motifs>>

\* extract_motifs: its position and the list it returns
motifVars == <<mpc, motifs>>

\* extract_motifs has not been called
MotifsIdle == mpc = "idle" /\ motifs = << >>

NoVarint == [err |-> "", bytes |-> << >>]

NoDecoded == [err |-> "", value |-> WZero, offset |-> 0]

NoHeader == [header_len |-> 0, n_points |-> 0, n_segments |-> 0]

\* the defaults of encode_timeseries, on the scale of the model's samples
DefaultOptions ==
  [segment_length |-> 2, predictor |-> "linear", C_Q |-> Frac(1, 2),
   Q_MIN |-> Frac(1, 8), segment_mode |-> "fixed", min_segment_length |-> 1,
   max_segment_length |-> 2, mse_threshold |-> Frac(1, 2),
   residual_coding |-> "raw"]

\* the integer pipeline is not running
IntIdle ==
  /\ ipc = "off"
  /\ zin = WZero
  /\ zz = WZero
  /\ venc = NoVarint
  /\ vdec = NoDecoded
  /\ zout = WZero

\* decode_timeseries has not been called
DecoderIdle ==
  /\ derr = NoError
  /\ offset = 0
  /\ hdr = NoHeader
  /\ meta = NoMeta
  /\ dsegments = << >>
  /\ dcoding = 0
  /\ q_res_segments = << >>
  /\ blk = 0
  /\ x_hat = NoOutput
  /\ seg_id = 0

\* the locals of encode_timeseries before its first statement
EncoderLocalsInit ==
  /\ eerr = NoError
  /\ segment_ranges = << >>
  /\ seg_start = 0
  /\ seg_end = 0
  /\ best_end = 0
  /\ segments = << >>
  /\ q_resid_segments = << >>
  /\ preds_segments = << >>
  /\ buf = EmptyBuffer

(***************************************************************************)
(* encode_timeseries                                                       *)
(***************************************************************************)
EncRaise(e) == epc' = "raised" /\ eerr' = e

\* a probe that is the mean predictor when the user selected 'auto'
segmentation_predictor_type_mean(o) ==
  IF o.predictor = "auto" THEN 0 ELSE predictor_map(o.predictor)

\* the predictor the adaptive segmentation measures with
segmentation_predictor_type(o) ==
  IF o.predictor = "auto" THEN 1 ELSE predictor_map(o.predictor)

\* the argument checks at the head of encode_timeseries
EncodeValidate ==
  /\ epc = "validate"
  /\ IF Len(ts.values) = 0 THEN EncRaise(ValueError("TimeSeries is empty"))
     ELSE IF opts.predictor # "auto" /\ predictor_map(opts.predictor) = -1
     THEN EncRaise(ValueError("Unknown predictor"))
     ELSE epc' = "dispatch" /\ eerr' = eerr
  /\ UNCHANGED <<inVars, insp, motifVars, loopVars, fitVars, buf, data, decVars, intVars>>

\* the choice of the segmentation and the argument checks of the chosen one
EncodeSegmentDispatch ==
  /\ epc = "dispatch"
  /\ IF opts.segment_mode = "fixed"
     THEN IF opts.segment_length <= 0
          THEN EncRaise(ValueError("segment_length must be > 0"))
          ELSE epc' = "fixed" /\ eerr' = eerr
     ELSE IF opts.segment_mode = "adaptive"
     THEN IF Len(ts.values) = 0
          THEN epc' = "fit" /\ eerr' = eerr
          ELSE IF opts.min_segment_length <= 0
                  \/ opts.max_segment_length < opts.min_segment_length
          THEN EncRaise(ValueError("Invalid min_len / max_len"))
          ELSE epc' = "adaptive_outer" /\ eerr' = eerr
     ELSE EncRaise(ValueError("segment_mode must be 'fixed' or 'adaptive'"))
  /\ seg_start' = 0
  /\ segment_ranges' = << >>
  /\ UNCHANGED <<inVars, insp, motifVars, seg_end, best_end, fitVars, buf, data,
                 decVars, intVars>>

\* one iteration of the while loop of segment_series_fixed_length, or its exit
FixedSegmentStep ==
  /\ epc = "fixed"
  /\ IF seg_start < Len(ts.values)
     THEN LET end == fixed_segment_end(seg_start, opts.segment_length, Len(ts.values))
          IN  /\ segment_ranges' = Append(segment_ranges, <<seg_start, end>>)
              /\ seg_start' = end + 1
              /\ epc' = epc
     ELSE /\ epc' = "fit"
          /\ UNCHANGED <<segment_ranges, seg_start>>
  /\ UNCHANGED <<inVars, insp, motifVars, eerr, seg_end, best_end, fitVars, buf, data,
                 decVars, intVars>>

\* the head of the outer while loop of segment_series_adaptive, or its exit
AdaptiveOuterStep ==
  /\ epc = "adaptive_outer"
  /\ IF seg_start < Len(ts.values)
     THEN /\ seg_end' = adaptive_first_end(seg_start, opts.min_segment_length,
                                           Len(ts.values))
          /\ best_end' = seg_end'
          /\ epc' = "adaptive_inner"
     ELSE /\ epc' = "fit"
          /\ UNCHANGED <<seg_end, best_end>>
  /\ UNCHANGED <<inVars, insp, motifVars, eerr, segment_ranges, seg_start, fitVars, buf,
                 data,
                 decVars, intVars>>

\* one iteration of the inner "while True" of segment_series_adaptive
AdaptiveInnerStep ==
  /\ epc = "adaptive_inner"
  /\ LET mse == probe_mse(ts.values, segmentation_predictor_type(opts),
                          seg_start, seg_end)
     IN  IF FLe(mse, opts.mse_threshold)
         THEN IF adaptive_may_extend(seg_start, seg_end, Len(ts.values),
                                     opts.max_segment_length)
              THEN /\ best_end' = seg_end
                   /\ seg_end' = seg_end + 1
                   /\ UNCHANGED <<segment_ranges, seg_start, epc>>
              ELSE /\ best_end' = seg_end
                   /\ segment_ranges' = Append(segment_ranges, <<seg_start, seg_end>>)
                   /\ seg_start' = seg_end + 1
                   /\ epc' = "adaptive_outer"
                   /\ UNCHANGED seg_end
         ELSE /\ segment_ranges' = Append(segment_ranges, <<seg_start, best_end>>)
              /\ seg_start' = best_end + 1
              /\ epc' = "adaptive_outer"
              /\ UNCHANGED <<seg_end, best_end>>
  /\ UNCHANGED <<inVars, insp, motifVars, eerr, fitVars, buf, data, decVars, intVars>>

\* one iteration of "for start, end in segment_ranges", or the end of the loop
EncodeFitSegment ==
  /\ epc = "fit"
  /\ IF Len(segments) < Len(segment_ranges)
     THEN LET rng == segment_ranges[Len(segments) + 1]
              r   == encode_segment(ts.values, rng[1], rng[2], opts)
          IN  IF r.err # NoError
              THEN EncRaise(r.err) /\ UNCHANGED fitVars
              ELSE /\ segments' = Append(segments, r.seg)
                   /\ q_resid_segments' = Append(q_resid_segments, r.q_res)
                   /\ preds_segments' = Append(preds_segments, r.preds)
                   /\ UNCHANGED <<epc, eerr>>
     ELSE epc' = "write_header" /\ UNCHANGED <<eerr, fitVars>>
  /\ UNCHANGED <<inVars, insp, motifVars, loopVars, buf, data, decVars, intVars>>

\* the file header, the context JSON and the segment table are written
EncodeWriteHeader ==
  /\ epc = "write_header"
  /\ LET ctx == build_context_json(ts)
     IN  buf' = [EmptyBuffer EXCEPT
                   !.magic = "LSG2", !.version = 1, !.flags = 0,
                   !.header_len = Len(ctx), !.n_points = Len(ts.values),
                   !.n_segments = Len(segments), !.ctx = ctx, !.segs = segments,
                   !.len = FILE_HEADER_SIZE + Len(ctx)
                           + (SEGMENT_ENTRY_SIZE * Len(segments))]
  /\ epc' = "write_residuals"
  /\ UNCHANGED <<inVars, insp, motifVars, eerr, loopVars, fitVars, data, decVars, intVars>>

\* the caller, holding the file of a first call, encodes the same series again
\* with the same options except residual_coding, which takes the other value
other_residual_coding(residual_coding) ==
  IF residual_coding = "raw" THEN "varint" ELSE "raw"

EncodeAgain ==
  /\ epc = "returned"
  /\ data = buf
  /\ opts' = [opts EXCEPT !.residual_coding = other_residual_coding(@)]
  /\ epc' = "validate"
  /\ eerr' = NoError
  /\ segment_ranges' = << >>
  /\ seg_start' = 0
  /\ seg_end' = 0
  /\ best_end' = 0
  /\ segments' = << >>
  /\ q_resid_segments' = << >>
  /\ preds_segments' = << >>
  /\ buf' = EmptyBuffer
  /\ UNCHANGED <<ts, prec, insp, motifVars, data, decVars, intVars>>

\* the second call is made after the first file was decoded
EncodeOtherCoding == dpc = "returned" /\ EncodeAgain

\* the second call is made before the first file is decoded
EncodeOtherCodingFirst == dpc = "header" /\ EncodeAgain

residual_coding_type(residual_coding) ==
  IF residual_coding = "raw" THEN 0
  ELSE IF residual_coding = "varint" THEN 1
  ELSE -1

\* the residual section is written and the bytes are returned; the caller
\* hands them to decode_timeseries
EncodeWriteResiduals ==
  /\ epc = "write_residuals"
  /\ LET ct == residual_coding_type(opts.residual_coding)
         blocks == [k \in 1..Len(q_resid_segments) |->
                      residual_block(k - 1, q_resid_segments[k], ct)]
     IN  IF ct = -1
         THEN /\ EncRaise(ValueError("Unknown residual_coding"))
              /\ UNCHANGED <<buf, data, dpc>>
         ELSE IF ct = 0 /\ \E k \in 1..Len(q_resid_segments) :
                             pack_out_of_range(q_resid_segments[k])
         THEN /\ EncRaise(PackError)
              /\ UNCHANGED <<buf, data, dpc>>
         ELSE /\ buf' = [buf EXCEPT !.coding_type = ct, !.blocks = blocks,
                                    !.len = buf.len + RESIDUAL_SECTION_HEADER_SIZE
                                            + BlocksSize(blocks)]
              /\ data' = buf'
              /\ epc' = "returned"
              /\ dpc' = "header"
              /\ UNCHANGED eerr
  /\ UNCHANGED <<inVars, insp, motifVars, loopVars, fitVars, derr, offset, hdr, meta,
                 dsegments,
                 dcoding, q_res_segments, blk, x_hat, seg_id, intVars>>

(***************************************************************************)
(* decode_timeseries                                                       *)
(***************************************************************************)
DecRaise(e) == dpc' = "raised" /\ derr' = e

\* the size check, the unpacking of the file header and the header checks
DecodeHeader ==
  /\ dpc = "header"
  /\ IF header_too_short(data)
     THEN DecRaise(ValueError("Data too short to contain header"))
          /\ UNCHANGED <<offset, hdr>>
     ELSE IF ~can_unpack(data, 0, FILE_HEADER_SIZE)
     THEN DecRaise(StructError) /\ UNCHANGED <<offset, hdr>>
     ELSE IF header_field_error(data) # NoError
     THEN DecRaise(header_field_error(data)) /\ UNCHANGED <<offset, hdr>>
     ELSE /\ hdr' = [header_len |-> data.header_len, n_points |-> data.n_points,
                     n_segments |-> data.n_segments]
          /\ offset' = FILE_HEADER_SIZE
          /\ dpc' = "context"
          /\ UNCHANGED derr
  /\ UNCHANGED <<encVars, insp, motifVars, data, meta, dsegments, dcoding,
                 q_res_segments, blk,
                 x_hat, seg_id, intVars>>

\* the context JSON is sliced out, parsed, and dt, t0 and unit are taken from it
DecodeContext ==
  /\ dpc = "context"
  /\ LET ctx_bytes == Slice(data.ctx, 0, hdr.header_len)
         ctx == parse_context(ctx_bytes)
     IN  IF data.len < offset + hdr.header_len
         THEN DecRaise(ValueError("Data too short for context JSON"))
              /\ UNCHANGED <<offset, meta>>
         ELSE IF ctx.err # NoError
         THEN DecRaise(ctx.err) /\ UNCHANGED <<offset, meta>>
         ELSE /\ meta' = [dt |-> ctx.dt, t0 |-> ctx.t0, unit |-> ctx.unit]
              /\ offset' = offset + hdr.header_len
              /\ dpc' = "segment_table"
              /\ UNCHANGED derr
  /\ UNCHANGED <<encVars, insp, motifVars, data, hdr, dsegments, dcoding,
                 q_res_segments, blk,
                 x_hat, seg_id, intVars>>

\* the loop that reads the n_segments entries of the segment table
DecodeSegmentTable ==
  /\ dpc = "segment_table"
  /\ LET r == read_segment_table(data, offset, hdr.n_segments, << >>)
     IN  IF r.err # NoError
         THEN DecRaise(r.err) /\ UNCHANGED <<offset, dsegments>>
         ELSE /\ dsegments' = r.segments
              /\ offset' = r.offset
              /\ dpc' = "residual_header"
              /\ UNCHANGED derr
  /\ UNCHANGED <<encVars, insp, motifVars, data, hdr, meta, dcoding, q_res_segments,
                 blk, x_hat,
                 seg_id, intVars>>

\* the residual section header; q_res_segments gets one empty list per segment
DecodeResidualHeader ==
  /\ dpc = "residual_header"
  /\ IF data.len < offset + RESIDUAL_SECTION_HEADER_SIZE
     THEN DecRaise(ValueError("Data too short for residual section header"))
          /\ UNCHANGED <<offset, dcoding, q_res_segments>>
     ELSE IF data.coding_type \notin {0, 1}
     THEN /\ DecRaise(ValueError("Unsupported coding_type"))
          /\ offset' = offset + RESIDUAL_SECTION_HEADER_SIZE
          /\ dcoding' = data.coding_type
          /\ UNCHANGED q_res_segments
     ELSE /\ dcoding' = data.coding_type
          /\ offset' = offset + RESIDUAL_SECTION_HEADER_SIZE
          /\ q_res_segments' = [k \in 1..hdr.n_segments |-> << >>]
          /\ dpc' = "blocks"
          /\ UNCHANGED derr
  /\ blk' = 0
  /\ UNCHANGED <<encVars, insp, motifVars, data, hdr, meta, dsegments, x_hat, seg_id,
                 intVars>>

\* one iteration of the loop over the residual blocks
DecodeResidualBlock ==
  /\ dpc = "blocks"
  /\ blk < hdr.n_segments
  /\ LET r == read_residual_block(data, offset, blk, hdr.n_segments, dcoding)
     IN  IF r.err # NoError
         THEN DecRaise(r.err) /\ UNCHANGED <<offset, q_res_segments, blk>>
         ELSE /\ q_res_segments' =
                   [q_res_segments EXCEPT ![residual_slot(r.seg_id, blk) + 1] = r.q_res]
              /\ offset' = r.offset
              /\ blk' = blk + 1
              /\ UNCHANGED <<dpc, derr>>
  /\ UNCHANGED <<encVars, insp, motifVars, data, hdr, meta, dsegments, dcoding, x_hat,
                 seg_id, intVars>>

\* x_hat = [0.0] * n_points, after the last residual block
DecodeAllocOutput ==
  /\ dpc = "blocks"
  /\ blk >= hdr.n_segments
  /\ x_hat' = alloc_output(hdr.n_points)
  /\ seg_id' = 0
  /\ dpc' = "reconstruct"
  /\ UNCHANGED <<encVars, insp, motifVars, data, derr, offset, hdr, meta, dsegments,
                 dcoding,
                 q_res_segments, blk, intVars>>

\* one iteration of "for seg_id, seg in enumerate(segments)"
DecodeReconstructSegment ==
  /\ dpc = "reconstruct"
  /\ seg_id < Len(dsegments)
  /\ LET r == reconstruct_segment(x_hat, dsegments[seg_id + 1],
                                  q_res_segments[seg_id + 1])
     IN  /\ x_hat' = r.x_hat
         /\ IF r.err # NoError
            THEN DecRaise(r.err) /\ UNCHANGED seg_id
            ELSE seg_id' = seg_id + 1 /\ UNCHANGED <<dpc, derr>>
  /\ UNCHANGED <<encVars, insp, motifVars, data, offset, hdr, meta, dsegments, dcoding,
                 q_res_segments, blk, intVars>>

\* return TimeSeries(values=x_hat, dt=dt, t0=t0, unit=unit)
DecodeReturn ==
  /\ dpc = "reconstruct"
  /\ seg_id >= Len(dsegments)
  /\ dpc' = "returned"
  /\ UNCHANGED <<encVars, insp, motifVars, data, derr, offset, hdr, meta, dsegments,
                 dcoding,
                 q_res_segments, blk, x_hat, seg_id, intVars>>

\* the caller cuts the encoded file to its first k bytes before decoding it
Truncate ==
  /\ epc = "returned"
  /\ dpc = "header"
  /\ data = buf
  /\ \E k \in 0..(buf.len - 1) : data' = [data EXCEPT !.len = k]
  /\ UNCHANGED <<encVars, insp, motifVars, decVars, intVars>>

\* the caller reorders the residual blocks of the encoded file before decoding
\* it; each block keeps its seg_id, seg_len, byte_len and payload
PermuteBlocks ==
  /\ epc = "returned"
  /\ dpc = "header"
  /\ data = buf
  /\ \E p \in [1..Len(buf.blocks) -> 1..Len(buf.blocks)] :
       /\ \A i, j \in 1..Len(buf.blocks) : p[i] = p[j] => i = j
       /\ \E i \in 1..Len(buf.blocks) : p[i] # i
       /\ data' = [data EXCEPT !.blocks = [k \in 1..Len(buf.blocks) |->
                                            buf.blocks[p[k]]]]
  /\ UNCHANGED <<encVars, insp, motifVars, decVars, intVars>>

(***************************************************************************)
(* The integer pipeline: one value through ZigZag and varint               *)
(***************************************************************************)
Int32Min == -2147483647 - 1

Int32Max == 2147483647

\* the model integers the pipeline is run on
IntSampleInts ==
  (-SmallInt..SmallInt)
  \cup {127, 128, 129, -127, -128, -129, 8191, 8192, 16383, 16384, -8192, -8193,
        1048575, 1048576, -1048576, -1048577, 1073741823, 1073741824,
        -1073741824, -1073741825, Int32Max - 1, Int32Max, Int32Min + 1, Int32Min}

\* 2^k as a Python int
WPow2(k) ==
  [d |-> [i \in 1..((k \div 7) + 1) |-> IF i = (k \div 7) + 1 THEN Pow2(k % 7) ELSE 0],
   s |-> 0]

\* 2^k - 1 as a Python int
WPow2Minus1(k) ==
  Norm([d |-> [i \in 1..((k \div 7) + 1) |->
                 IF i = (k \div 7) + 1 THEN Pow2(k % 7) - 1 ELSE 127],
        s |-> 0])

\* Python ints beyond the signed 32-bit range
IntSampleWide ==
  {WPow2(31), WPow2(32), WPow2Minus1(32), WPow2Minus1(63), WPow2(63),
   WPow2Minus1(64), WPow2Minus1(70), WPow2(70), WPow2(77),
   WXor(WPow2(31), FromInt(-1)), WXor(WPow2(40), FromInt(-1))}

IntSamples == {FromInt(n) : n \in IntSampleInts} \cup IntSampleWide

codecVars == <<encVars, data, decVars>>

InitInt ==
  /\ prec = 0
  /\ insp = NoInspection
  /\ MotifsIdle
  /\ epc = "off"
  /\ dpc = "off"
  /\ ts = [values |-> << >>, dt |-> FZero, t0 |-> << >>, unit |-> << >>]
  /\ opts = DefaultOptions
  /\ EncoderLocalsInit
  /\ data = EmptyBuffer
  /\ DecoderIdle
  /\ ipc = "in"
  /\ zin \in IntSamples
  /\ zz = WZero
  /\ venc = NoVarint
  /\ vdec = NoDecoded
  /\ zout = WZero

\* z = zigzag_encode(int(v)), as encode_int_list_varint calls it
ZigzagEncodeStep ==
  /\ ipc = "in"
  /\ zz' = zigzag_encode(zin)
  /\ ipc' = "zz"
  /\ UNCHANGED <<codecVars, insp, motifVars, zin, venc, vdec, zout>>

\* out += _encode_varint(z)
VarintEncodeStep ==
  /\ ipc = "zz"
  /\ venc' = _encode_varint(zz)
  /\ ipc' = IF venc'.err = "" THEN "encoded" ELSE "encode_raised"
  /\ UNCHANGED <<codecVars, insp, motifVars, zin, zz, vdec, zout>>

\* _encode_varint called on the value itself
VarintEncodeDirect ==
  /\ ipc = "in"
  /\ venc' = _encode_varint(zin)
  /\ zz' = zin
  /\ ipc' = IF venc'.err = "" THEN "encoded_direct" ELSE "encode_raised_direct"
  /\ UNCHANGED <<codecVars, insp, motifVars, zin, vdec, zout>>

\* z, offset = _decode_varint(data, offset)
VarintDecodeStep ==
  /\ ipc \in {"encoded", "encoded_direct"}
  /\ vdec' = _decode_varint(venc.bytes, 0)
  /\ ipc' = IF vdec'.err # ""
            THEN (IF ipc = "encoded" THEN "decode_raised" ELSE "decode_raised_direct")
            ELSE IF ipc = "encoded" THEN "decoded" ELSE "decoded_direct"
  /\ UNCHANGED <<codecVars, insp, motifVars, zin, zz, venc, zout>>

\* out.append(zigzag_decode(z))
ZigzagDecodeStep ==
  /\ ipc = "decoded"
  /\ zout' = zigzag_decode(vdec.value)
  /\ ipc' = "done"
  /\ UNCHANGED <<codecVars, insp, motifVars, zin, zz, venc, vdec>>

\* zigzag_decode called on the result of zigzag_encode
ZigzagDecodeDirect ==
  /\ ipc = "zz"
  /\ zout' = zigzag_decode(zz)
  /\ ipc' = "zz_done"
  /\ UNCHANGED <<codecVars, insp, motifVars, zin, zz, venc, vdec>>

NextInt ==
  \/ ZigzagEncodeStep
  \/ ZigzagDecodeDirect
  \/ VarintEncodeStep
  \/ VarintEncodeDirect
  \/ VarintDecodeStep
  \/ ZigzagDecodeStep

SpecInt == InitInt /\ [][NextInt]_vars

(***************************************************************************)
(* _decode_varint on caller-chosen buffers and offsets                     *)
(***************************************************************************)
\* the longest run of continuation bytes the buffers start with
MaxRun == 11

\* bytes with the continuation bit set
ContinuationRuns ==
  {[i \in 1..k |-> b] : k \in 0..MaxRun, b \in {128, 255}}
  \cup {[i \in 1..k |-> IF i % 2 = 1 THEN 129 ELSE 200] : k \in 2..MaxRun}

\* a run of continuation bytes, then nothing or a terminator byte and a tail
VarintBuffers ==
  ContinuationRuns
  \cup {run \o <<term>> \o tail :
          run \in ContinuationRuns, term \in {0, 1, 127},
          tail \in {<< >>, <<128>>, <<5, 255>>}}

InitVarint ==
  /\ prec = 0
  /\ insp = NoInspection
  /\ MotifsIdle
  /\ epc = "off"
  /\ dpc = "off"
  /\ ts = [values |-> << >>, dt |-> FZero, t0 |-> << >>, unit |-> << >>]
  /\ opts = DefaultOptions
  /\ EncoderLocalsInit
  /\ data = EmptyBuffer
  /\ derr = NoError
  /\ offset \in 0..2
  /\ hdr = NoHeader
  /\ meta = NoMeta
  /\ dsegments = << >>
  /\ dcoding = 0
  /\ q_res_segments = << >>
  /\ blk = 0
  /\ x_hat = NoOutput
  /\ seg_id = 0
  /\ ipc = "buffer"
  /\ zin = WZero
  /\ zz = WZero
  /\ venc \in {[err |-> "", bytes |-> b] : b \in VarintBuffers}
  /\ vdec = NoDecoded
  /\ zout = WZero

\* z, offset = _decode_varint(data, offset) on the buffer venc.bytes; the
\* variable offset keeps the offset the call was given
VarintDecodeBuffer ==
  /\ ipc = "buffer"
  /\ vdec' = _decode_varint(venc.bytes, offset)
  /\ ipc' = IF vdec'.err = "" THEN "buffer_decoded" ELSE "buffer_raised"
  /\ UNCHANGED <<codecVars, insp, motifVars, zin, zz, venc, zout>>

NextVarint == VarintDecodeBuffer

SpecVarint == InitVarint /\ [][NextVarint]_vars

(***************************************************************************)
(* The codec on caller-chosen series and options: encode, then decode      *)
(***************************************************************************)
MaxLen == 3

\* the finite sample values a series is drawn from
SampleValues == {FI(0), FI(1), FI(3)}

\* every series of at most MaxLen finite samples, and three with a NaN sample
SeriesValues ==
  UNION {[1..n -> SampleValues] : n \in 0..MaxLen}
  \cup {<<NaN>>, <<FI(0), NaN>>, <<NaN, FI(1), FI(3)>>}

FixedOptions ==
  {[DefaultOptions EXCEPT !.predictor = p, !.segment_length = sl,
                          !.residual_coding = rc] :
     p \in {"mean", "linear", "rw", "auto"}, sl \in {2, MaxLen},
     rc \in {"raw", "varint"}}

AdaptiveOptions ==
  {[DefaultOptions EXCEPT !.segment_mode = "adaptive", !.predictor = p,
                          !.min_segment_length = mm[1],
                          !.max_segment_length = mm[2],
                          !.mse_threshold = thr, !.residual_coding = "varint"] :
     p \in {"mean", "linear", "rw", "auto"}, mm \in {<<1, 2>>, <<2, 3>>},
     thr \in {FZero, Frac(1, 2)}}

\* option sets that encode_timeseries refuses
RefusedOptions ==
  {[DefaultOptions EXCEPT !.predictor = "cubic"],
   [DefaultOptions EXCEPT !.segment_length = 0],
   [DefaultOptions EXCEPT !.residual_coding = "gzip"],
   [DefaultOptions EXCEPT !.segment_mode = "sliding"],
   [DefaultOptions EXCEPT !.segment_mode = "adaptive", !.min_segment_length = 0],
   [DefaultOptions EXCEPT !.segment_mode = "adaptive", !.min_segment_length = 2,
                          !.max_segment_length = 1]}

\* option sets with an invalid value for an option the selected segment mode
\* does not read
UnreadInvalidOptions ==
  {[DefaultOptions EXCEPT !.segment_mode = "adaptive", !.segment_length = 0],
   [DefaultOptions EXCEPT !.min_segment_length = 0],
   [DefaultOptions EXCEPT !.min_segment_length = 2, !.max_segment_length = 1],
   [DefaultOptions EXCEPT !.min_segment_length = -1, !.max_segment_length = -1]}

\* a small C_Q and Q_MIN: quantized residuals of more than one varint byte
FineOptions ==
  {[DefaultOptions EXCEPT !.predictor = "mean", !.C_Q = Frac(1, 64),
                          !.Q_MIN = Frac(1, 64), !.residual_coding = rc] :
     rc \in {"raw", "varint"}}

OptionSets ==
  FixedOptions \cup AdaptiveOptions \cup RefusedOptions \cup UnreadInvalidOptions
  \cup FineOptions

\* encode_timeseries(ts, **opts) is called on floats of p significand bits;
\* nothing else is running
InitCodecAt(p, series, options) ==
  /\ prec = p
  /\ insp = NoInspection
  /\ MotifsIdle
  /\ ts \in series
  /\ opts \in options
  /\ epc = "validate"
  /\ EncoderLocalsInit
  /\ data = EmptyBuffer
  /\ dpc = "idle"
  /\ DecoderIdle
  /\ IntIdle

\* the same call with arithmetic that does not round
InitCodec(series, options) == InitCodecAt(0, series, options)

Init ==
  InitCodec({[values |-> v, dt |-> FI(1), t0 |-> <<"a">>, unit |-> <<"u">>] :
               v \in SeriesValues},
            OptionSets)

NextEncode ==
  \/ EncodeValidate
  \/ EncodeSegmentDispatch
  \/ FixedSegmentStep
  \/ AdaptiveOuterStep
  \/ AdaptiveInnerStep
  \/ EncodeFitSegment
  \/ EncodeWriteHeader
  \/ EncodeWriteResiduals

NextDecode ==
  \/ DecodeHeader
  \/ DecodeContext
  \/ DecodeSegmentTable
  \/ DecodeResidualHeader
  \/ DecodeResidualBlock
  \/ DecodeAllocOutput
  \/ DecodeReconstructSegment
  \/ DecodeReturn

Next == NextEncode \/ NextDecode

Spec == Init /\ [][Next]_vars

(***************************************************************************)
(* Encode, reorder the residual blocks or not, decode                      *)
(***************************************************************************)
NextPermute == NextEncode \/ PermuteBlocks \/ NextDecode

SpecPermute == Init /\ [][NextPermute]_vars

(***************************************************************************)
(* encode_int_list_varint and decode_int_list_varint on lists of signed    *)
(* 32-bit integers; bytes may be appended to the encoded list before it is *)
(* decoded                                                                 *)
(***************************************************************************)
MaxListLen == 2

MaxSurplus == 2

ListInts == {0, -1, 63, 64, -65, Int32Max, Int32Min}

SurplusBytes == {0, 1, 128, 255}

\* the list is q_resid_segments[1], the length argument of the decoder is blk
InitList ==
  /\ prec = 0
  /\ insp = NoInspection
  /\ MotifsIdle
  /\ epc = "off"
  /\ dpc = "off"
  /\ ts = [values |-> << >>, dt |-> FZero, t0 |-> << >>, unit |-> << >>]
  /\ opts = DefaultOptions
  /\ eerr = NoError
  /\ segment_ranges = << >>
  /\ seg_start = 0
  /\ seg_end = 0
  /\ best_end = 0
  /\ segments = << >>
  /\ \E n \in 0..MaxListLen :
       \E vs \in [1..n -> ListInts] :
         /\ q_resid_segments = <<WideOf(vs)>>
         /\ blk \in 0..(n + 1)
  /\ preds_segments = << >>
  /\ buf = EmptyBuffer
  /\ data = EmptyBuffer
  /\ derr = NoError
  /\ offset = 0
  /\ hdr = NoHeader
  /\ meta = NoMeta
  /\ dsegments = << >>
  /\ dcoding = 1
  /\ q_res_segments = << >>
  /\ x_hat = NoOutput
  /\ seg_id = 0
  /\ ipc = "list"
  /\ zin = WZero
  /\ zz = WZero
  /\ venc = NoVarint
  /\ vdec = NoDecoded
  /\ zout = WZero

\* data_bytes = encode_int_list_varint(values)
ListEncode ==
  /\ ipc = "list"
  /\ venc' = [err |-> "", bytes |-> encode_int_list_varint(q_resid_segments[1])]
  /\ ipc' = "list_encoded"
  /\ UNCHANGED <<codecVars, insp, motifVars, zin, zz, vdec, zout>>

\* a byte is appended to the block before it is decoded
ListAppendSurplus ==
  /\ ipc = "list_encoded"
  /\ Len(venc.bytes)
       < Len(encode_int_list_varint(q_resid_segments[1])) + MaxSurplus
  /\ \E b \in SurplusBytes : venc' = [venc EXCEPT !.bytes = Append(@, b)]
  /\ UNCHANGED <<codecVars, insp, motifVars, ipc, zin, zz, vdec, zout>>

\* decode_int_list_varint(data, length)
ListDecode ==
  /\ ipc = "list_encoded"
  /\ LET r == decode_int_list_varint(venc.bytes, blk)
     IN  /\ derr' = r.err
         /\ q_res_segments' = IF r.err = NoError THEN <<r.out>> ELSE q_res_segments
         /\ ipc' = IF r.err = NoError THEN "list_decoded" ELSE "list_raised"
  /\ UNCHANGED <<encVars, insp, motifVars, data, dpc, offset, hdr, meta, dsegments, dcoding,
                 blk, x_hat, seg_id, zin, zz, venc, vdec, zout>>

NextList == ListEncode \/ ListAppendSurplus \/ ListDecode

SpecList == InitList /\ [][NextList]_vars

(***************************************************************************)
(* The segmentation functions alone: segment_series_fixed_length(n, L) and *)
(* segment_series_adaptive(values, type, min_len, max_len, mse_threshold)  *)
(* are called on their own, and have returned when epc = "fit"             *)
(***************************************************************************)
MaxPoints == 4

SegmentedValues ==
  UNION {[1..n -> SampleValues] : n \in 0..MaxPoints}
  \cup {<<NaN>>, <<FI(0), NaN>>, <<FI(0), FI(1), NaN, FI(3)>>}

FixedLengths ==
  {[DefaultOptions EXCEPT !.segment_length = sl] : sl \in -1..MaxPoints}

LengthPairs == {<<1, 1>>, <<1, 2>>, <<2, 3>>, <<1, 4>>, <<3, 3>>, <<0, 1>>, <<2, 1>>}

AdaptiveLengths ==
  {[DefaultOptions EXCEPT !.segment_mode = "adaptive", !.predictor = p,
                          !.min_segment_length = mm[1],
                          !.max_segment_length = mm[2], !.mse_threshold = thr] :
     p \in {"mean", "linear", "rw", "auto"}, mm \in LengthPairs,
     thr \in {FZero, Frac(1, 2)}}

InitSegment ==
  /\ prec = 0
  /\ insp = NoInspection
  /\ MotifsIdle
  /\ ts \in {[values |-> v, dt |-> FI(1), t0 |-> <<"a">>, unit |-> <<"u">>] :
               v \in SegmentedValues}
  /\ opts \in FixedLengths \cup AdaptiveLengths
  /\ epc = "dispatch"
  /\ EncoderLocalsInit
  /\ data = EmptyBuffer
  /\ dpc = "idle"
  /\ DecoderIdle
  /\ IntIdle

NextSegment ==
  \/ EncodeSegmentDispatch
  \/ FixedSegmentStep
  \/ AdaptiveOuterStep
  \/ AdaptiveInnerStep

SpecSegment == InitSegment /\ [][NextSegment]_vars

\* the loops are scheduled until they exit
\* the same calls from a single initial state: the caller picks the series and
\* the lengths, then the segmentation runs
InitCall ==
  /\ prec = 0
  /\ insp = NoInspection
  /\ MotifsIdle
  /\ ts = [values |-> << >>, dt |-> FI(1), t0 |-> <<"a">>, unit |-> <<"u">>]
  /\ opts = DefaultOptions
  /\ epc = "call"
  /\ EncoderLocalsInit
  /\ data = EmptyBuffer
  /\ dpc = "idle"
  /\ DecoderIdle
  /\ IntIdle

SegmentCall ==
  /\ epc = "call"
  /\ ts' \in {[ts EXCEPT !.values = v] : v \in SegmentedValues}
  /\ opts' \in FixedLengths \cup AdaptiveLengths
  /\ epc' = "dispatch"
  /\ UNCHANGED <<prec, insp, motifVars, eerr, loopVars, fitVars, buf, data, decVars, intVars>>

NextCall == SegmentCall \/ NextSegment

\* the statements of the call and of the two loops
Running == {"call", "dispatch", "fixed", "adaptive_outer", "adaptive_inner"}

progressVars == <<epc, segment_ranges, seg_start, seg_end>>

\* the thread executes its next statement: the position in the code changes,
\* or an index of a loop, or the list of emitted segments
LoopAdvance ==
  /\ epc \in Running
  /\ epc' \in Running \cup {"fit", "raised"}
  /\ seg_start' \in 0..(MaxPoints + 1)
  /\ seg_end' \in (-1)..(MaxPoints + 1)
  /\ segment_ranges' \in
       {<< >>, segment_ranges}
       \cup {Append(segment_ranges, <<a, b>>) :
               a \in 0..MaxPoints, b \in (-1)..(MaxPoints + 1)}

\* segmentation runs in one thread and waits for nothing: while it is inside
\* the call it eventually executes its next statement
FairSegment == InitCall /\ [][NextCall]_vars /\ WF_progressVars(LoopAdvance)

(***************************************************************************)
(* The encoder alone with C_Q = 0 and Q_MIN = 2^-23: the step is Q_MIN      *)
(* whatever the samples are, and a residual of 256 is quantized to 2^31    *)
(***************************************************************************)
WideQMin == Frac(1, 8388608)

WideSampleValues == {FI(0), FI(384), FI(768)}

WideSeriesValues == UNION {[1..n -> WideSampleValues] : n \in 1..MaxLen}

WideOptions ==
  {[DefaultOptions EXCEPT !.predictor = p, !.segment_length = sl, !.C_Q = FZero,
                          !.Q_MIN = WideQMin,
                          !.residual_coding = rc] :
     p \in {"mean", "linear", "rw"}, sl \in {2, MaxLen}, rc \in {"raw", "varint"}}
  \cup
  {[DefaultOptions EXCEPT !.segment_mode = "adaptive", !.predictor = p,
                          !.min_segment_length = 1, !.max_segment_length = 2,
                          !.mse_threshold = Frac(1, 2), !.C_Q = FZero,
                          !.Q_MIN = WideQMin,
                          !.residual_coding = rc] :
     p \in {"mean", "rw"}, rc \in {"raw", "varint"}}

InitWide ==
  InitCodec({[values |-> v, dt |-> FI(1), t0 |-> <<"a">>, unit |-> <<"u">>] :
               v \in WideSeriesValues},
            WideOptions)

SpecWide == InitWide /\ [][NextEncode]_vars

(***************************************************************************)
(* Encode, decode, then encode the same series with the other residual     *)
(* coding and decode that file                                             *)
(***************************************************************************)
NextRecode == NextEncode \/ EncodeOtherCoding \/ NextDecode

SpecRecode == Init /\ [][NextRecode]_vars

\* the two encoder calls alone, on the series and options of SpecWide
NextRecodeWide == NextEncode \/ EncodeOtherCodingFirst

SpecRecodeWide == InitWide /\ [][NextRecodeWide]_vars

(***************************************************************************)
(* The codec on floats of MantissaBits significand bits: encode, then      *)
(* decode, with every float operation rounded to nearest, ties to even     *)
(***************************************************************************)
MantissaBits == 5

\* samples that floats of MantissaBits bits represent exactly
RoundedSampleValues ==
  {fl([n |-> k, d |-> 1]) : k \in {16, 17, 31, 36}}

\* every series of one to three of these samples, and the constant series of
\* five samples
RoundedSeriesValues ==
  UNION {[1..n -> RoundedSampleValues] : n \in 1..3}
  \cup {[i \in 1..5 |-> v] : v \in RoundedSampleValues}

RoundedOptions ==
  {[DefaultOptions EXCEPT !.predictor = p, !.segment_length = sl] :
     p \in {"mean", "linear", "rw", "auto"}, sl \in {3, 5}}
  \cup {[DefaultOptions EXCEPT !.segment_mode = "adaptive", !.predictor = p,
                               !.residual_coding = "varint"] :
          p \in {"mean", "linear"}}

InitRounded ==
  InitCodecAt(MantissaBits,
              {[values |-> v, dt |-> [n |-> 1, d |-> 1], t0 |-> <<"a">>,
                unit |-> <<"u">>] : v \in RoundedSeriesValues},
              RoundedOptions)

SpecRounded == InitRounded /\ [][Next]_vars

(***************************************************************************)
(* Metadata: encode, then decode, over series with varied dt, t0 and unit  *)
(***************************************************************************)
MaxTextLen == 2

\* the characters of t0 and unit: a plain one, the two that JSON escapes with a
\* backslash, and a non-ASCII one
TextChars == {"a", "\"", "\\", "U+00E9"}

Texts(maxlen) == UNION {[1..n -> TextChars] : n \in 0..maxlen}

MetaSeries ==
  {[values |-> v, dt |-> dt, t0 |-> t0, unit |-> unit] :
     v \in {<<FI(0), FI(1), FI(3)>>}, dt \in {FI(1), FI(60), Frac(1, 2), Frac(5, 4)},
     t0 \in Texts(MaxTextLen), unit \in Texts(1)}

MetaOptions ==
  {DefaultOptions,
   [DefaultOptions EXCEPT !.segment_mode = "adaptive", !.predictor = "auto",
                          !.residual_coding = "varint"]}

InitMeta == InitCodec(MetaSeries, MetaOptions)

SpecMeta == InitMeta /\ [][Next]_vars

(***************************************************************************)
(* Truncation: encode, cut the file to a strict prefix, decode             *)
(***************************************************************************)
TruncSeries ==
  {[values |-> v, dt |-> FI(1), t0 |-> <<"a">>, unit |-> <<"u">>] :
     v \in {<<FI(1)>>, <<FI(0), FI(1), FI(3)>>}}

TruncOptions ==
  {DefaultOptions,
   [DefaultOptions EXCEPT !.predictor = "rw", !.residual_coding = "varint"],
   [DefaultOptions EXCEPT !.segment_mode = "adaptive", !.predictor = "auto",
                          !.residual_coding = "varint"]}

InitTrunc == InitCodec(TruncSeries, TruncOptions)

NextTrunc == NextEncode \/ Truncate \/ NextDecode

SpecTrunc == InitTrunc /\ [][NextTrunc]_vars

(***************************************************************************)
(* Hostile files: decode_timeseries on buffers no encoder wrote            *)
(***************************************************************************)
MaxIdx == 2

HostileCtx == build_context_json([dt |-> FI(1), t0 |-> <<"a">>, unit |-> <<"u">>])

\* a well-formed file with the given counts, segment table and residual blocks
FileOf(n_points, segs, ct, blocks) ==
  [len |-> FILE_HEADER_SIZE + Len(HostileCtx) + (SEGMENT_ENTRY_SIZE * Len(segs))
           + RESIDUAL_SECTION_HEADER_SIZE + BlocksSize(blocks),
   magic |-> "LSG2", version |-> 1, flags |-> 0, header_len |-> Len(HostileCtx),
   n_points |-> n_points, n_segments |-> Len(segs), ctx |-> HostileCtx,
   segs |-> segs, coding_type |-> ct, blocks |-> blocks]

\* files whose 28-byte header is arbitrary; after the context comes a residual
\* section header and nothing else
HeaderFiles ==
  {[FileOf(np, << >>, 0, << >>) EXCEPT
      !.magic = mg, !.version = ver, !.n_segments = ns,
      !.header_len = hl, !.len = IF short THEN FILE_HEADER_SIZE - 1 ELSE @] :
     mg \in {"LSG2", "XXXX"}, ver \in {1, 2},
     np \in {0, 2, MAX_N_POINTS, MAX_N_POINTS + 1, Int32Max},
     ns \in {0, 1, MAX_N_SEGMENTS, MAX_N_SEGMENTS + 1, Int32Max},
     hl \in {Len(HostileCtx), 0, Len(HostileCtx) + RESIDUAL_SECTION_HEADER_SIZE + 1},
     short \in BOOLEAN}

TableEntry(start, end, type) ==
  [start_idx |-> start, end_idx |-> end, predictor_type |-> type, mean |-> FI(1),
   slope |-> FI(1), intercept |-> FZero, quant_step_Q |-> Frac(1, 2),
   seed_value |-> FI(1)]

TableEntries ==
  {TableEntry(a, b, ty) : a \in 0..MaxIdx, b \in 0..MaxIdx, ty \in {0, 2}}

Tables == UNION {[1..n -> TableEntries] : n \in 0..2}

\* one block per table entry, with as many residuals as the entry has indexes
BlocksFor(segs, ct) ==
  [k \in 1..Len(segs) |->
     residual_block(k - 1,
                    [i \in 1..((segs[k].end_idx - segs[k].start_idx) + 1) |->
                       FromInt(1)], ct)]

\* files with a valid header and an arbitrary segment table
TableFiles ==
  {FileOf(np, segs, ct, BlocksFor(segs, ct)) :
     np \in 0..(MaxIdx + 1), segs \in Tables, ct \in {0, 1}}

BaseTable == <<TableEntry(0, 1, 1), TableEntry(2, 2, 0)>>

BaseFile(ct) == FileOf(3, BaseTable, ct, BlocksFor(BaseTable, ct))

\* a well-formed file with one field of its residual section or table changed
CorruptFiles ==
  UNION {{[BaseFile(ct) EXCEPT !.coding_type = 2],
          [BaseFile(ct) EXCEPT !.blocks[1].seg_id = 5],
          [BaseFile(ct) EXCEPT !.blocks[1].seg_len = 3],
          [BaseFile(ct) EXCEPT !.blocks[1].seg_id = 1, !.blocks[2].seg_id = 0],
          [BaseFile(ct) EXCEPT !.segs[2].predictor_type = 3],
          [BaseFile(ct) EXCEPT !.segs[2].end_idx = 3],
          [BaseFile(ct) EXCEPT !.blocks[2].byte_len = @ + 1]} : ct \in {0, 1}}
  \cup {[BaseFile(0) EXCEPT !.blocks[1].byte_len = 4]}

HostileFiles == HeaderFiles \cup TableFiles \cup CorruptFiles

\* decode_timeseries(data) is called on a hostile file; no encoder runs
InitHostile ==
  /\ prec = 0
  /\ insp = NoInspection
  /\ MotifsIdle
  /\ ts = [values |-> << >>, dt |-> FZero, t0 |-> << >>, unit |-> << >>]
  /\ opts = DefaultOptions
  /\ epc = "off"
  /\ EncoderLocalsInit
  /\ data \in HostileFiles
  /\ dpc = "header"
  /\ DecoderIdle
  /\ IntIdle

SpecHostile == InitHostile /\ [][NextDecode]_vars

(***************************************************************************)
(* Inspecting and decoding the same caller-chosen file                     *)
(***************************************************************************)
\* read_lsg2_metadata_and_segments(data) is called on the file that
\* decode_timeseries is given
Inspect ==
  /\ dpc \notin {"off", "idle"}
  /\ insp.pc = "idle"
  /\ insp' = read_lsg2_metadata_and_segments(data)
  /\ UNCHANGED <<encVars, data, decVars, intVars, motifVars>>

NextInspect == NextDecode \/ Inspect

SpecInspect == InitHostile /\ [][NextInspect]_vars

(***************************************************************************)
(* extract_motifs on the segment table that the inspection returned        *)
(***************************************************************************)
MaxSegs == 3

\* a segment entry with the fields that the classification reads
MotifEntry(pt, slope, Q, s, e) ==
  [mean |-> FZero, slope |-> slope, intercept |-> FZero, predictor_type |-> pt,
   seed_value |-> FZero, start_idx |-> s, end_idx |-> e, quant_step_Q |-> Q]

\* entries of the four patterns, on and off the thresholds, with NaN fields,
\* and with end_idx < start_idx
MotifEntries ==
  {MotifEntry(0, FZero, Frac(1, 100), 0, 1),
   MotifEntry(1, Frac(1, 1000), Frac(1, 100), 2, 4),
   MotifEntry(1, Frac(-1, 50), Frac(1, 2), 0, 0),
   MotifEntry(1, Frac(1, 100), Frac(1, 100), 1, 2),
   MotifEntry(2, FZero, Frac(1, 10), 0, 2),
   MotifEntry(1, Frac(1, 200), Frac(3, 10), 3, 3),
   MotifEntry(0, Frac(1, 50), Frac(1, 2), 0, 1),
   MotifEntry(1, NaN, NaN, 0, 0),
   MotifEntry(1, Frac(1, 50), Frac(1, 2), 2, 1),
   MotifEntry(2, FZero, Frac(1, 10), 3, 0)}

MotifSegmentLists == UNION {[1..n -> MotifEntries] : n \in 0..MaxSegs}

InitMotif ==
  /\ prec = 0
  /\ insp \in {[NoInspection EXCEPT !.pc = "returned", !.segments = s] :
                 s \in MotifSegmentLists}
  /\ MotifsIdle
  /\ ts = [values |-> << >>, dt |-> FZero, t0 |-> << >>, unit |-> << >>]
  /\ opts = DefaultOptions
  /\ epc = "off"
  /\ EncoderLocalsInit
  /\ data = EmptyBuffer
  /\ dpc = "off"
  /\ DecoderIdle
  /\ IntIdle

\* motifs = extract_motifs(segments)
ExtractMotifs ==
  /\ mpc = "idle"
  /\ insp.pc = "returned"
  /\ motifs' = extract_motifs(insp.segments)
  /\ mpc' = "returned"
  /\ UNCHANGED <<encVars, insp, data, decVars, intVars>>

SpecMotif == InitMotif /\ [][ExtractMotifs]_vars

(***************************************************************************)
(* Properties of encode followed by decode (Spec)                          *)
(***************************************************************************)
\* C1 as stated: for every segment encoded with the random-walk predictor the
\* encoder's prediction at position 0 is seed_value and at every position
\* i >= 1 is the reconstructed previous sample, prediction(i-1) + q(i-1)*Q.
C1_Original ==
  \A k \in 1..Len(segments) :
    segments[k].predictor_type = 2 =>
      LET p == preds_segments[k]
          q == IntsOf(q_resid_segments[k])
          Q == segments[k].quant_step_Q
      IN  \A i \in 1..Len(p) :
            p[i] = IF i = 1 THEN segments[k].seed_value
                   ELSE FAdd(p[i - 1], FMul(FI(q[i - 1]), Q))

\* C3: for every non-empty input and every accepted option set, the
\* (start_idx, end_idx) pairs written to the segment table, in table order, are a
\* contiguous partition of [0, n_points): the first start is 0, each start is
\* the previous end + 1, every end >= its start, the last end is n_points - 1.
C3_SegmentTablePartition ==
  epc \in {"write_residuals", "returned"} =>
    LET t == buf.segs
        n == Len(ts.values)
    IN  /\ n > 0
        /\ buf.n_points = n
        /\ buf.n_segments = Len(t)
        /\ Len(t) >= 1
        /\ t[1].start_idx = 0
        /\ t[Len(t)].end_idx = n - 1
        /\ \A k \in 1..Len(t) :
             /\ t[k].end_idx >= t[k].start_idx
             /\ (k > 1 => t[k].start_idx = t[k - 1].end_idx + 1)

\* an adaptive encoding of three samples wrote a table of two segments
C3_Witness ==
  /\ epc = "returned"
  /\ opts.segment_mode = "adaptive"
  /\ Len(ts.values) = 3
  /\ Len(buf.segs) = 2
  /\ buf.segs[2].end_idx = 2

\* C4 as stated: for any non-empty input of length n and any accepted options,
\* decode_timeseries(encode_timeseries(x)) succeeds and returns n samples.
C4_Original ==
  (Len(ts.values) > 0 /\ opts \in FixedOptions \cup AdaptiveOptions) =>
    /\ epc # "raised"
    /\ dpc # "raised"
    /\ (dpc = "returned" => x_hat.alloc /\ x_hat.n = Len(ts.values))

(***************************************************************************)
(* Properties of the metadata round trip (SpecMeta)                        *)
(***************************************************************************)
\* C5: the metadata returned by decode equals the metadata given to encode,
\* field by field (dt, t0, unit), whatever the samples and the options: the
\* context JSON of an encoded file always parses, and from then on the
\* decoder's dt, t0 and unit are those of the encoded series.
C5_MetadataFidelity ==
  /\ (dpc = "raised" => derr.msg # "JSONDecodeError")
  /\ (dpc \in {"segment_table", "residual_header", "blocks", "reconstruct",
               "returned"} =>
        /\ meta.dt = ts.dt
        /\ meta.t0 = ts.t0
        /\ meta.unit = ts.unit)

\* a series with a fractional dt and a t0 of escaped characters was decoded
C5_Witness ==
  /\ dpc = "returned"
  /\ ts.dt = Frac(5, 4)
  /\ ts.t0 = <<"\"", "U+00E9">>
  /\ ts.unit = <<"\\">>
  /\ meta = [dt |-> ts.dt, t0 |-> ts.t0, unit |-> ts.unit]

(***************************************************************************)
(* Properties of decoding a truncated file (SpecTrunc)                     *)
(***************************************************************************)
\* C7: every strict prefix of an encoded file is rejected by decode_timeseries:
\* the decoder never reaches the reconstruction, returns no sample vector, and
\* the error it raises is the ValueError of one of its length checks.
C7_TruncationRejected ==
  (epc = "returned" /\ data.len < buf.len) =>
    /\ dpc \notin {"reconstruct", "returned"}
    /\ ~x_hat.alloc
    /\ (dpc = "raised" => derr.kind = "ValueError")
    /\ (dpc = "blocks" => blk < hdr.n_segments)

\* a file cut by its last byte was rejected inside the last residual payload
C7_Witness ==
  /\ epc = "returned"
  /\ data.len = buf.len - 1
  /\ dpc = "raised"
  /\ derr = ValueError("Data too short for residual block data")
  /\ blk = hdr.n_segments - 1

(***************************************************************************)
(* Properties of decoding hostile files (SpecHostile)                      *)
(***************************************************************************)
\* C2 as stated: decode_timeseries fails whenever the segment table does not
\* write every index of [0, n_points) exactly once: it returns only if every
\* index was written, and none twice.
C2_Original ==
  dpc = "returned" =>
    /\ Cardinality(DOMAIN x_hat.cnt) = x_hat.n
    /\ \A j \in DOMAIN x_hat.cnt : x_hat.cnt[j] = 1

\* the header declares a count above its ceiling
BadCounts(d) == d.n_points > MAX_N_POINTS \/ d.n_segments > MAX_N_SEGMENTS

SuspiciousErrors == {"Suspicious n_points", "Suspicious n_segments"}

\* C6: a buffer whose header declares n_points above 10,000,000 or n_segments
\* above 1,000,000 is rejected with a ValueError before the segment table is
\* read and before the per-segment lists or the output are allocated, whatever
\* the rest of the buffer contains; the ceilings themselves pass this check.
C6_CeilingsRejectedEarly ==
  /\ BadCounts(data) =>
       /\ dpc \in {"header", "raised"}
       /\ dsegments = << >>
       /\ q_res_segments = << >>
       /\ ~x_hat.alloc
       /\ offset = 0
       /\ (dpc = "raised" => derr.kind = "ValueError")
  /\ (BadCounts(data) /\ dpc = "raised" /\ data.len >= FILE_HEADER_SIZE
      /\ data.magic = "LSG2" /\ data.version = 1) =>
       derr.msg \in SuspiciousErrors
  /\ (~BadCounts(data) /\ dpc = "raised") => derr.msg \notin SuspiciousErrors

\* a header declaring 10,000,001 points was rejected with nothing allocated
C6_Witness ==
  /\ dpc = "raised"
  /\ data.n_points = MAX_N_POINTS + 1
  /\ data.n_segments = MAX_N_SEGMENTS
  /\ derr = ValueError("Suspicious n_points")
  /\ ~x_hat.alloc

\* C8: for a buffer of at least 28 bytes the decoder fails with the
\* invalid-magic error if the magic is not "LSG2", whatever the other fields;
\* with the unsupported-version error if the magic is right and version # 1;
\* and only then with the n_points, n_segments and header_len errors, in this
\* order.  A shorter buffer fails the header size check.
C8_HeaderCheckOrder ==
  dpc # "header" =>
    IF data.len < FILE_HEADER_SIZE
    THEN dpc = "raised" /\ derr = ValueError("Data too short to contain header")
    ELSE IF data.magic # "LSG2"
    THEN dpc = "raised" /\ derr = ValueError("Invalid magic, not an LSG2 file")
    ELSE IF data.version # 1
    THEN dpc = "raised" /\ derr = ValueError("Unsupported LSG2 version")
    ELSE IF data.n_points > MAX_N_POINTS
    THEN dpc = "raised" /\ derr = ValueError("Suspicious n_points")
    ELSE IF data.n_segments > MAX_N_SEGMENTS
    THEN dpc = "raised" /\ derr = ValueError("Suspicious n_segments")
    ELSE IF data.header_len > data.len - FILE_HEADER_SIZE
    THEN dpc = "raised"
         /\ derr = ValueError("header_len is inconsistent with data size")
    ELSE (dpc = "raised" =>
            derr.msg \notin {"Data too short to contain header",
                             "Invalid magic, not an LSG2 file",
                             "Unsupported LSG2 version",
                             "header_len is inconsistent with data size"})

\* a buffer with a wrong magic and every other header field wrong as well was
\* rejected for its magic
C8_Witness ==
  /\ dpc = "raised"
  /\ data.len >= FILE_HEADER_SIZE
  /\ data.magic = "XXXX"
  /\ data.version = 2
  /\ data.n_points = Int32Max
  /\ data.n_segments = Int32Max
  /\ data.header_len > data.len - FILE_HEADER_SIZE
  /\ derr = ValueError("Invalid magic, not an LSG2 file")

(***************************************************************************)
(* Properties of the integer pipeline (SpecInt)                            *)
(***************************************************************************)
\* C9: for every signed 32-bit n, zigzag_encode(n) is a non-negative integer
\* below 2^32, equal to 2n for n >= 0 and to -2n-1 for n < 0 (stated on its
\* low bit and its upper bits, which stay in range), and
\* zigzag_decode(zigzag_encode(n)) = n.
C9_ZigzagInt32 ==
  (ipc \in {"zz", "zz_done"} /\ IsInt32(zin)) =>
    /\ IsUInt32(zz)
    /\ ~IsNeg(zz)
    /\ IF ~IsNeg(zin)
       THEN WAnd1(zz) = 0 /\ ToInt(WShr1(zz)) = ToInt(zin)
       ELSE WAnd1(zz) = 1 /\ ToInt(WShr1(zz)) = -(ToInt(zin) + 1)
    /\ ((ToInt(zin) >= -1073741824 /\ ToInt(zin) <= 1073741823) =>
          ToInt(zz) = IF ToInt(zin) >= 0 THEN 2 * ToInt(zin)
                      ELSE -((2 * ToInt(zin)) + 1))
    /\ (ipc = "zz_done" => zout = zin)

\* the round trip of the smallest signed 32-bit integer has been computed
C9_Witness ==
  /\ ipc = "zz_done"
  /\ zin = FromInt(Int32Min)
  /\ zz = WPow2Minus1(32)
  /\ zout = zin

\* u < 2^70: the varint of u has at most ten bytes
FitsTenGroups(u) == WShr(u, 70) = WZero

\* C10 as stated: for every non-negative u, decoding _encode_varint(u) from
\* offset 0 returns u and the number of encoded bytes; _encode_varint raises on
\* every negative input and produces no bytes.
C10_Original ==
  /\ (~IsNeg(zin) => ipc \notin {"encode_raised_direct", "decode_raised_direct"})
  /\ (ipc = "decoded_direct" =>
        vdec.value = zin /\ vdec.offset = Len(venc.bytes))
  /\ (IsNeg(zin) =>
        /\ ipc \notin {"encoded_direct", "decoded_direct", "decode_raised_direct"}
        /\ (ipc = "encode_raised_direct" => venc.bytes = << >>))

\* C10 amended: for every u with 0 <= u < 2^70, decoding _encode_varint(u) from
\* offset 0 returns u and the number of encoded bytes; for u >= 2^70 the
\* encoding succeeds and _decode_varint raises "Varint too long"; _encode_varint
\* raises on every negative input and produces no bytes.
C10_VarintRoundTrip ==
  /\ ((~IsNeg(zin) /\ FitsTenGroups(zin)) =>
        ipc \notin {"encode_raised_direct", "decode_raised_direct"})
  /\ (ipc = "decoded_direct" =>
        /\ vdec.value = zin
        /\ vdec.offset = Len(venc.bytes)
        /\ Len(venc.bytes) <= 10)
  /\ ((~IsNeg(zin) /\ ~FitsTenGroups(zin)) =>
        /\ ipc \notin {"encode_raised_direct", "decoded_direct"}
        /\ (ipc = "decode_raised_direct" => vdec.err = "Varint too long"))
  /\ (IsNeg(zin) =>
        /\ ipc \notin {"encoded_direct", "decoded_direct", "decode_raised_direct"}
        /\ (ipc = "encode_raised_direct" =>
              /\ venc.bytes = << >>
              /\ venc.err = "varint expects non-negative integers"))

\* the largest value that round-trips, 2^70 - 1, has been decoded
C10_Witness ==
  /\ ipc = "decoded_direct"
  /\ zin = WPow2Minus1(70)
  /\ vdec.value = zin
  /\ vdec.offset = 10

\* the number of bytes with the continuation bit set that the buffer holds
\* from 0-based position pos on, counted up to the first byte without it
RECURSIVE ContinuationRun(_, _)
ContinuationRun(bytes, pos) ==
  IF pos < Len(bytes) /\ bytes[pos + 1] >= 128
  THEN 1 + ContinuationRun(bytes, pos + 1)
  ELSE 0

\* the buffer holds a byte without the continuation bit after the run
Terminated(bytes, pos) == pos + ContinuationRun(bytes, pos) < Len(bytes)

\* C11: _decode_varint fails exactly when (a) the buffer ends before a byte
\* with the continuation bit clear is read ("Truncated varint"), or (b) ten
\* bytes with the continuation bit set are read, so that more than ten bytes
\* would be consumed ("Varint too long"); a varint that terminates within ten
\* bytes inside the buffer decodes to the value of its 7-bit groups, least
\* significant first, and to the offset just past its last byte.
C11_VarintDecodeFailures ==
  ipc \in {"buffer_decoded", "buffer_raised"} =>
    LET run == ContinuationRun(venc.bytes, offset)
    IN  /\ (ipc = "buffer_decoded") <=>
             (Terminated(venc.bytes, offset) /\ run + 1 <= 10)
        /\ (ipc = "buffer_raised") <=>
             (~Terminated(venc.bytes, offset) \/ run + 1 > 10)
        /\ (ipc = "buffer_raised" /\ run >= 10) => vdec.err = "Varint too long"
        /\ (ipc = "buffer_raised" /\ run < 10) => vdec.err = "Truncated varint"
        /\ ipc = "buffer_decoded" =>
             /\ vdec.offset = offset + run + 1
             /\ vdec.value =
                  Norm([d |-> [i \in 1..(run + 1) |-> venc.bytes[offset + i] % 128],
                        s |-> 0])

\* a ten-byte varint inside a longer buffer has been decoded from offset 1
C11_Witness ==
  /\ ipc = "buffer_decoded"
  /\ offset = 1
  /\ ContinuationRun(venc.bytes, offset) = 9
  /\ vdec.offset = 11
  /\ Len(venc.bytes) > 11

\* a buffer of nine continuation bytes has been refused as truncated
C11_WitnessTruncated ==
  /\ ipc = "buffer_raised"
  /\ ContinuationRun(venc.bytes, offset) = 9
  /\ vdec.err = "Truncated varint"

\* the quantization of candidate type c for the segment entry seg over x_seg
CandidateQuantized(x_seg, seg, c, o) ==
  quantize_residuals(
    residuals_of(x_seg, _build_preds_for_segmentation(x_seg, c, seg.mean, seg.slope,
                                                      seg.intercept, seg.seed_value)),
    o.C_Q, o.Q_MIN)

\* the MSE against x_seg of what decode_timeseries reconstructs from the entry
\* seg with predictor type c and the quantization qz
DecodedCandidateMse(x_seg, seg, c, qz, n_points) ==
  LET w == reconstruct_segment(alloc_output(n_points),
                               [seg EXCEPT !.predictor_type = c,
                                           !.quant_step_Q = qz.Q],
                               IntsOf(qz.q_res)).x_hat.w
  IN  mse_of(x_seg, [i \in 1..Len(x_seg) |-> w[(seg.start_idx + i) - 1]])

CandidateMse(x_seg, seg, c, o, n_points) ==
  DecodedCandidateMse(x_seg, seg, c, CandidateQuantized(x_seg, seg, c, o), n_points)

\* the segment entry seg and residuals q_res are those of the candidate type
\* with the lowest decoded MSE, the lowest type id among equals
CommitsBestCandidate(x_seg, seg, q_res, o, n_points) ==
  /\ seg.predictor_type \in {0, 1, 2}
  /\ \A c \in {0, 1, 2} :
       /\ FLe(CandidateMse(x_seg, seg, seg.predictor_type, o, n_points),
              CandidateMse(x_seg, seg, c, o, n_points))
       /\ c < seg.predictor_type =>
            FLt(CandidateMse(x_seg, seg, seg.predictor_type, o, n_points),
                CandidateMse(x_seg, seg, c, o, n_points))
  /\ seg.quant_step_Q = CandidateQuantized(x_seg, seg, seg.predictor_type, o).Q
  /\ q_res = CandidateQuantized(x_seg, seg, seg.predictor_type, o).q_res

\* C12: with predictor 'auto' every committed segment carries the predictor type
\* in {0, 1, 2} whose reconstruction, as decode_timeseries computes it from the
\* candidate's Q and quantized residuals, has the lowest MSE against the
\* segment's samples, ties going to the lowest type id, and the committed Q and
\* quantized residuals are those of that candidate.
C12_AutoCommitsLowestMse ==
  opts.predictor = "auto" =>
    \A k \in 1..Len(segments) :
      CommitsBestCandidate(
        Slice(ts.values, segments[k].start_idx, segments[k].end_idx + 1),
        segments[k], q_resid_segments[k], opts, Len(ts.values))

\* an 'auto' encoding committed a random-walk segment that beats both other
\* candidates, and the file has been written
C12_Witness ==
  /\ opts.predictor = "auto"
  /\ epc = "returned"
  /\ \E k \in 1..Len(segments) :
       /\ segments[k].predictor_type = 2
       /\ segments[k].end_idx - segments[k].start_idx = 2
       /\ buf.segs[k] = segments[k]

\* an 'auto' encoding committed the mean predictor on a tie of all three
C12_WitnessTie ==
  /\ opts.predictor = "auto"
  /\ \E k \in 1..Len(segments) :
       LET x_seg == Slice(ts.values, segments[k].start_idx, segments[k].end_idx + 1)
       IN  /\ segments[k].predictor_type = 0
           /\ Len(x_seg) = 3
           /\ \A c \in {1, 2} :
                FEq(CandidateMse(x_seg, segments[k], c, opts, Len(ts.values)),
                    CandidateMse(x_seg, segments[k], 0, opts, Len(ts.values)))

\* the names encode_timeseries defines for its predictor, segment_mode and
\* residual_coding options
PredictorNames == {"mean", "linear", "rw", "auto"}

SegmentModeNames == {"fixed", "adaptive"}

ResidualCodingNames == {"raw", "varint"}

\* the series is empty or an option value is outside its declared domain
InvalidInput ==
  \/ Len(ts.values) = 0
  \/ opts.segment_length <= 0
  \/ opts.min_segment_length <= 0
  \/ opts.max_segment_length <= 0
  \/ opts.max_segment_length < opts.min_segment_length
  \/ opts.predictor \notin PredictorNames
  \/ opts.segment_mode \notin SegmentModeNames
  \/ opts.residual_coding \notin ResidualCodingNames

\* C13 as stated: encode_timeseries raises an invalid-input error and returns
\* no bytes whenever the series is empty, a segment-length option
\* (segment_length, min_segment_length, max_segment_length) is non-positive,
\* max_segment_length < min_segment_length, or the predictor, segment-mode or
\* residual-coding name is not a defined one.
C13_Original ==
  InvalidInput =>
    /\ epc # "returned"
    /\ (epc = "raised" => eerr.kind = "ValueError")

\* the messages of the option checks of encode_timeseries
OptionErrors ==
  {ValueError("Unknown predictor"),
   ValueError("segment_length must be > 0"),
   ValueError("Invalid min_len / max_len"),
   ValueError("segment_mode must be 'fixed' or 'adaptive'"),
   ValueError("Unknown residual_coding")}

\* C14 as stated: every option check of encode_timeseries (predictor name,
\* segment mode, segment lengths, residual-coding name) is performed before
\* segmentation, per-segment fitting and output-buffer construction begin: when
\* an option is refused, no segment has been computed and no byte has been
\* appended to the buffer.
C14_Original ==
  (epc = "raised" /\ eerr \in OptionErrors) =>
    /\ segment_ranges = << >>
    /\ segments = << >>
    /\ buf = EmptyBuffer

\* 2 * |a - b| <= c for floats a, b, c, compared without rounding
WithinHalf(a, b, c) ==
  /\ ~IsNaN(a)
  /\ ~IsNaN(b)
  /\ FLe([n |-> 2 * Abs((a.n * b.d) - (b.n * a.d)), d |-> a.d * b.d], c)

\* every sample of the segment entry seg decoded into xh is within Q/2 of the
\* sample it encodes
SegmentWithinHalfQ(values, seg, xh) ==
  \A j \in seg.start_idx..seg.end_idx :
    WithinHalf(values[j + 1], xh.w[j], seg.quant_step_Q)

\* C15 as stated: for every segment encoded with the mean or the linear
\* predictor, each reconstructed sample pred(i) + q(i) * Q differs from the
\* original sample by at most Q/2 (so the segment's reconstruction MSE is at
\* most (Q/2)^2).
C15_Original ==
  (dpc = "returned" /\ opts.predictor \in {"mean", "linear"}) =>
    \A k \in 1..Len(dsegments) :
      SegmentWithinHalfQ(ts.values, dsegments[k], x_hat)

\* a - b without rounding
ExactSub(a, b) == Frac((a.n * b.d) - (b.n * a.d), a.d * b.d)

\* x[i] = a * i + b for some a # 0 and b
StrictlyAffine(x) ==
  /\ Len(x) >= 2
  /\ \A i \in 1..Len(x) : ~IsNaN(x[i])
  /\ x[2] # x[1]
  /\ \A i \in 1..(Len(x) - 1) : ExactSub(x[i + 1], x[i]) = ExactSub(x[2], x[1])

\* x[i] = c for some c
ConstantSeries(x) == Len(x) >= 1 /\ \A i \in 1..Len(x) : ~IsNaN(x[i]) /\ x[i] = x[1]

\* C16 as stated: when the predictor fits the input exactly (a strictly affine
\* input under the linear predictor with any segmentation, or a constant input
\* under the mean predictor), every quantized residual of every segment is 0,
\* every committed Q equals Q_MIN, and every decoded sample is within Q_MIN of
\* the original.
C16_Original ==
  ((opts.predictor = "linear" /\ StrictlyAffine(ts.values))
   \/ (opts.predictor = "mean" /\ ConstantSeries(ts.values))) =>
    /\ \A k \in 1..Len(segments) :
         /\ segments[k].quant_step_Q = opts.Q_MIN
         /\ \A i \in 1..Len(q_resid_segments[k]) : q_resid_segments[k][i] = WZero
    /\ dpc = "returned" =>
         \A j \in 0..(Len(ts.values) - 1) :
           WithinHalf(ts.values[j + 1], x_hat.w[j],
                      [n |-> 2 * opts.Q_MIN.n, d |-> opts.Q_MIN.d])

\* both decode_timeseries and read_lsg2_metadata_and_segments returned
BothAccepted == dpc = "returned" /\ insp.pc = "returned"

\* C17 as stated: read_lsg2_metadata_and_segments reads the file header, the
\* context JSON, the segment table and the residual section header, then skips
\* over every residual block using its declared byte_len (its offset ends where
\* the offset of decode_timeseries ends, past the last block); for every file
\* that decode_timeseries accepts it returns the n_points, segment table and
\* coding_type that decode_timeseries parses.
C17_Original ==
  /\ (dpc = "returned" /\ insp.pc # "idle") => insp.pc = "returned"
  /\ BothAccepted =>
       /\ insp.n_points = hdr.n_points
       /\ insp.segments = dsegments
       /\ insp.coding_type = dcoding
       /\ insp.offset = offset

\* C17 amended: read_lsg2_metadata_and_segments reads the file header, the
\* context JSON, the segment table and the coding_type of the residual section
\* header and returns there: its offset stays at the start of the residual
\* section header and no residual block header or payload is read or skipped;
\* for every file that decode_timeseries accepts it returns the n_points,
\* segment table, coding_type and context that decode_timeseries parses.
C17_InspectAgreesWithDecode ==
  /\ (dpc = "returned" /\ insp.pc # "idle") => insp.pc = "returned"
  /\ BothAccepted =>
       /\ insp.n_points = hdr.n_points
       /\ insp.segments = dsegments
       /\ insp.coding_type = dcoding
       /\ insp.ctx = meta
       /\ insp.offset
            = FILE_HEADER_SIZE + hdr.header_len
              + (SEGMENT_ENTRY_SIZE * hdr.n_segments)
       /\ insp.offset + RESIDUAL_SECTION_HEADER_SIZE <= data.len

\* a varint-coded file of two segments was accepted by both operations
C17_Witness ==
  /\ BothAccepted
  /\ dcoding = 1
  /\ Len(dsegments) = 2
  /\ data.blocks # << >>
  /\ insp.offset < offset

\* the number of bytes of the varint of z >= 0: its 7-bit groups
RECURSIVE VarintSize(_)
VarintSize(z) == IF z < 128 THEN 1 ELSE 1 + VarintSize(z \div 128)

\* the ZigZag value of a small signed integer: 2n for n >= 0, -2n - 1 otherwise
ZigzagValue(n) == IF n >= 0 THEN 2 * n ELSE (-2 * n) - 1

\* the payload size of a residual block holding q_res under coding_type ct
ExpectedByteLen(q_res, ct) ==
  IF ct = 0 THEN 4 * Len(q_res)
  ELSE ISum([i \in 1..Len(q_res) |-> VarintSize(ZigzagValue(q_res[i]))])

\* C18: in every file encode_timeseries writes, n_points is the number of input
\* samples, n_segments is the number of segment-table entries and of residual
\* blocks, block k (in file order, from 0) carries seg_id = k and
\* seg_len = end_idx(k) - start_idx(k) + 1, and byte_len is the exact size of
\* its payload: 4 * seg_len under raw coding, the total size of the ZigZag
\* varints under varint coding.
C18_WrittenFileCounts ==
  epc = "returned" =>
    /\ buf.n_points = Len(ts.values)
    /\ buf.n_segments = Len(buf.segs)
    /\ buf.n_segments = Len(buf.blocks)
    /\ \A k \in 1..Len(buf.blocks) :
         /\ buf.blocks[k].seg_id = k - 1
         /\ buf.blocks[k].seg_len
              = (buf.segs[k].end_idx - buf.segs[k].start_idx) + 1
         /\ buf.blocks[k].byte_len = Len(buf.blocks[k].payload)
         /\ buf.blocks[k].byte_len
              = ExpectedByteLen(IntsOf(q_resid_segments[k]), buf.coding_type)
    /\ buf.len = FILE_HEADER_SIZE + buf.header_len
                 + (SEGMENT_ENTRY_SIZE * buf.n_segments)
                 + RESIDUAL_SECTION_HEADER_SIZE
                 + ISum([k \in 1..Len(buf.blocks) |->
                           RESIDUAL_BLOCK_HEADER_SIZE + buf.blocks[k].byte_len])

\* a varint file of two segments was written whose first block holds a
\* two-byte varint: three bytes for two residuals
C18_Witness ==
  /\ epc = "returned"
  /\ buf.coding_type = 1
  /\ Len(buf.blocks) = 2
  /\ buf.blocks[1].seg_len = 2
  /\ buf.blocks[1].byte_len = 3
  /\ buf.blocks[2].seg_len = 1

\* a raw file of two segments was written
C18_WitnessRaw ==
  /\ epc = "returned"
  /\ buf.coding_type = 0
  /\ Len(buf.blocks) = 2
  /\ buf.blocks[1].byte_len = 8
  /\ buf.blocks[2].byte_len = 4

\* the number of residuals decode_timeseries holds for segment id after the
\* blocks bs: seg_len of the last block that carries id, 0 without such a block
RECURSIVE ResidualCount(_, _)
ResidualCount(bs, id) ==
  IF bs = << >> THEN 0
  ELSE IF bs[Len(bs)].seg_id = id THEN bs[Len(bs)].seg_len
  ELSE ResidualCount(SubSeq(bs, 1, Len(bs) - 1), id)

\* the file d has one of the defects of the residual section or segment table
MalformedResiduals(d) ==
  \/ d.coding_type \notin {0, 1}
  \/ \E k \in 1..Len(d.blocks) :
       \/ d.blocks[k].seg_id >= d.n_segments
       \/ d.coding_type = 0 /\ d.blocks[k].byte_len # 4 * d.blocks[k].seg_len
       \/ Len(d.blocks[k].payload) < d.blocks[k].byte_len
  \/ \E k \in 1..Len(d.segs) :
       \/ (d.segs[k].end_idx - d.segs[k].start_idx) + 1
            # ResidualCount(d.blocks, k - 1)
       \/ d.segs[k].predictor_type \notin {0, 1, 2}

\* C19: decode_timeseries returns no samples for a file in which coding_type
\* is not 0 or 1, a residual block's seg_id is >= n_segments, a raw block's
\* byte_len differs from 4 * seg_len, a block's payload is shorter than its
\* byte_len, a segment's end_idx - start_idx + 1 differs from the number of
\* residuals decoded for its seg_id, or a segment's predictor_type is not 0, 1
\* or 2; when it stops, it has raised an error.
C19_MalformedResidualsRejected ==
  MalformedResiduals(data) =>
    /\ dpc # "returned"
    /\ dpc = "raised" => derr # NoError

\* the file whose two blocks carry each other's seg_id was refused for the
\* mismatch between segment length and residual count
C19_Witness ==
  /\ dpc = "raised"
  /\ derr = ValueError("Segment length mismatch")
  /\ Len(data.blocks) = 2
  /\ data.blocks[1].seg_id = 1
  /\ data.blocks[2].seg_id = 0
  /\ MalformedResiduals(data)

\* each defect has been refused with its own error
C19_WitnessCodingType ==
  dpc = "raised" /\ derr = ValueError("Unsupported coding_type")

C19_WitnessSegId ==
  dpc = "raised" /\ derr = ValueError("Invalid seg_id in residual block")

C19_WitnessByteLen ==
  dpc = "raised" /\ derr = ValueError("byte_len != seg_len * 4 for raw residuals")

C19_WitnessShortPayload ==
  dpc = "raised" /\ derr = ValueError("Data too short for residual block data")

C19_WitnessPredictorType ==
  dpc = "raised" /\ derr = ValueError("Unknown predictor_type")

\* the Python ints decode_int_list_varint reads from the payload of a varint
\* block of n residuals that encode_int_list_varint wrote
RECURSIVE DecodedWide(_, _, _)
DecodedWide(bytes, n, off) ==
  IF n <= 0 THEN << >>
  ELSE <<zigzag_decode(_decode_varint(bytes, off).value)>>
       \o DecodedWide(bytes, n - 1, _decode_varint(bytes, off).offset)

\* C20 as stated: every quantized residual that encode_timeseries commits to a
\* residual block is a signed 32-bit integer, for every input and every accepted
\* C_Q / Q_MIN, so that the encoder returns a file and the integers that the
\* raw int32 packing or the ZigZag varints of each block hold are the integers
\* the encoder committed.
C20_Original ==
  /\ \A k \in 1..Len(q_resid_segments) :
       \A i \in 1..Len(q_resid_segments[k]) : IsInt32(q_resid_segments[k][i])
  /\ epc = "raised" => eerr.kind # "struct.error"
  /\ (epc = "returned" /\ buf.coding_type = 1) =>
       \A k \in 1..Len(buf.blocks) :
         DecodedWide(buf.blocks[k].payload, buf.blocks[k].seg_len, 0)
           = q_resid_segments[k]

\* the residuals that fit 32 bits are recovered from the block that holds them
C20_FittingResidualsRecovered ==
  epc = "returned" =>
    \A k \in 1..Len(buf.blocks) :
      (\A i \in 1..Len(q_resid_segments[k]) : IsInt32(q_resid_segments[k][i])) =>
        q_resid_segments[k]
          = IF buf.coding_type = 1
            THEN DecodedWide(buf.blocks[k].payload, buf.blocks[k].seg_len, 0)
            ELSE WideOf(unpack_i32_list(buf.blocks[k].payload,
                                        buf.blocks[k].seg_len))

\* a residual outside 32 bits was committed and the varint file was returned
C20_WideCommitted ==
  /\ epc = "returned"
  /\ buf.coding_type = 1
  /\ \E k \in 1..Len(q_resid_segments) :
       \E i \in 1..Len(q_resid_segments[k]) : ~IsInt32(q_resid_segments[k][i])

\* a residual outside 32 bits was committed and the raw packing raised
C20_PackRaised == epc = "raised" /\ eerr = PackError

\* the population standard deviation of a non-empty list of floats, from the
\* mean of the squares and the square of the mean
PopulationSigma(rs) ==
  FSqrt(FSub(FDiv(FSum([i \in 1..Len(rs) |-> FMul(rs[i], rs[i])]), FI(Len(rs))),
             FMul(FDiv(FSum(rs), FI(Len(rs))), FDiv(FSum(rs), FI(Len(rs))))))

\* the residuals the encoder quantized for segment entry k
SegmentResiduals(k) ==
  residuals_of(Slice(ts.values, segments[k].start_idx, segments[k].end_idx + 1),
               preds_segments[k])

\* C21: every segment entry written by encode_timeseries has quant_step_Q > 0,
\* with quant_step_Q = max(C_Q * sigma, Q_MIN) >= Q_MIN, sigma the population
\* standard deviation of the segment's residuals; quantize_residuals on an
\* empty residual list returns the empty list and Q = Q_MIN.
C21_QuantStepPositive ==
  /\ \A k \in 1..Len(segments) :
       /\ FLt(FZero, segments[k].quant_step_Q)
       /\ FLe(opts.Q_MIN, segments[k].quant_step_Q)
       /\ segments[k].quant_step_Q
            = FMax(FMul(opts.C_Q, PopulationSigma(SegmentResiduals(k))), opts.Q_MIN)
  /\ epc = "returned" => buf.segs = segments
  /\ quantize_residuals(<< >>, opts.C_Q, opts.Q_MIN)
       = [err |-> NoError, q_res |-> << >>, Q |-> opts.Q_MIN]

\* a file was returned with one entry whose step is C_Q * sigma, above Q_MIN,
\* and one whose step is Q_MIN
C21_Witness ==
  /\ epc = "returned"
  /\ \E k \in 1..Len(buf.segs) : FLt(opts.Q_MIN, buf.segs[k].quant_step_Q)
  /\ \E k \in 1..Len(buf.segs) :
       /\ buf.segs[k].quant_step_Q = opts.Q_MIN
       /\ FLt(FMul(opts.C_Q, PopulationSigma(SegmentResiduals(k))), opts.Q_MIN)

\* segment_series_fixed_length has returned its list
FixedReturned == opts.segment_mode = "fixed" /\ epc = "fit"

\* the length of the range rng = (start, end)
RangeLen(rng) == (rng[2] - rng[1]) + 1

\* C22: segment_series_fixed_length(n, L) with L > 0 returns exactly
\* ceil(n / L) segments; every segment but the last has length L, the last has
\* length n - L * (count - 1), which is in 1..L; for n = 0 it returns no
\* segment; for L <= 0 it raises an invalid-parameter error.
C22_FixedLengthSegments ==
  /\ FixedReturned =>
       /\ opts.segment_length > 0
       /\ Len(segment_ranges)
            = ((Len(ts.values) + opts.segment_length) - 1) \div opts.segment_length
       /\ \A k \in 1..(Len(segment_ranges) - 1) :
            RangeLen(segment_ranges[k]) = opts.segment_length
       /\ Len(segment_ranges) > 0 =>
            /\ RangeLen(segment_ranges[Len(segment_ranges)])
                 = Len(ts.values)
                   - (opts.segment_length * (Len(segment_ranges) - 1))
            /\ RangeLen(segment_ranges[Len(segment_ranges)]) \in 1..opts.segment_length
       /\ Len(ts.values) = 0 => segment_ranges = << >>
  /\ (opts.segment_mode = "fixed" /\ opts.segment_length <= 0) =>
       /\ epc \in {"dispatch", "raised"}
       /\ epc = "raised" => eerr = ValueError("segment_length must be > 0")

\* four samples were cut into two segments of three and one
C22_Witness ==
  /\ FixedReturned
  /\ Len(ts.values) = 4
  /\ opts.segment_length = 3
  /\ segment_ranges = <<(<<0, 2>>), (<<3, 3>>)>>

\* no sample, no segment
C22_WitnessEmpty == FixedReturned /\ Len(ts.values) = 0 /\ segment_ranges = << >>

\* a non-positive length was refused
C22_WitnessRefused ==
  /\ opts.segment_mode = "fixed"
  /\ opts.segment_length <= 0
  /\ epc = "raised"

\* segment_series_adaptive runs or has returned, its parameters being valid
AdaptiveValid ==
  /\ opts.segment_mode = "adaptive"
  /\ 1 <= opts.min_segment_length
  /\ opts.min_segment_length <= opts.max_segment_length

AdaptiveReturned == AdaptiveValid /\ epc = "fit"

\* C23: with 1 <= min_len <= max_len, every segment segment_series_adaptive
\* emits has at most max_len samples, and every segment but the last has at
\* least min_len; the last is shorter only when fewer than min_len samples
\* remained at its start.
C23_AdaptiveLengthBounds ==
  AdaptiveValid =>
    \A k \in 1..Len(segment_ranges) :
      /\ RangeLen(segment_ranges[k]) <= opts.max_segment_length
      /\ RangeLen(segment_ranges[k]) >= 1
      /\ \/ RangeLen(segment_ranges[k]) >= opts.min_segment_length
         \/ /\ segment_ranges[k][2] = Len(ts.values) - 1
            /\ (epc = "fit" => k = Len(segment_ranges))
            /\ Len(ts.values) - segment_ranges[k][1] < opts.min_segment_length

\* a segment grew from min_len to max_len, and the last one is shorter than
\* min_len
C23_Witness ==
  /\ AdaptiveReturned
  /\ opts.min_segment_length = 2
  /\ opts.max_segment_length = 3
  /\ segment_ranges = <<(<<0, 2>>), (<<3, 3>>)>>

\* the probe predictor: linear for 'auto', otherwise the user's predictor
ExpectedProbe ==
  IF opts.predictor = "mean" THEN 0
  ELSE IF opts.predictor = "rw" THEN 2
  ELSE 1

\* the probe's MSE against the raw samples of [s..e]
ProbeMse(s, e) == probe_mse(ts.values, ExpectedProbe, s, e)

\* the length a segment starting at s begins with: min(min_len, n - s)
InitialLen(s) == Min(opts.min_segment_length, Len(ts.values) - s)

\* a segment longer than its initial length passed the probe
ExtendedWithinThreshold(rng) ==
  RangeLen(rng) > InitialLen(rng[1]) =>
    FLe(ProbeMse(rng[1], rng[2]), opts.mse_threshold)

C24_WitnessExceeded ==
  /\ AdaptiveReturned
  /\ opts.predictor = "auto"
  /\ \E k \in 1..Len(segment_ranges) :
       /\ RangeLen(segment_ranges[k]) > InitialLen(segment_ranges[k][1])
       /\ RangeLen(segment_ranges[k]) < opts.max_segment_length
       /\ segment_ranges[k][2] + 1 < Len(ts.values)
       /\ FLt(opts.mse_threshold,
              ProbeMse(segment_ranges[k][1], segment_ranges[k][2] + 1))

\* the bytes appended after the encoded list
SurplusLen == Len(venc.bytes) - Len(encode_int_list_varint(q_resid_segments[1]))

\* C25: decode_int_list_varint(data, N) returns the first N ZigZag-decoded
\* values of the block and succeeds when bytes remain after the N-th value:
\* surplus bytes never turn the decode into a failure, and
\* decode_int_list_varint(encode_int_list_varint(vs), len(vs)) = vs for every
\* list vs of signed 32-bit integers.
C25_SurplusBytesIgnored ==
  (ipc \in {"list_decoded", "list_raised"} /\ blk <= Len(q_resid_segments[1])) =>
    /\ ipc = "list_decoded"
    /\ derr = NoError
    /\ q_res_segments[1] = SubSeq(IntsOf(q_resid_segments[1]), 1, blk)

\* a list of two values was decoded in full from a block that ends in two
\* surplus bytes
C25_Witness ==
  /\ ipc = "list_decoded"
  /\ blk = 2
  /\ Len(q_resid_segments[1]) = 2
  /\ SurplusLen = 2
  /\ q_res_segments[1] = <<Int32Min, 64>>

\* one value was asked of a list of two, without surplus bytes
C25_WitnessPrefix ==
  /\ ipc = "list_decoded"
  /\ blk = 1
  /\ Len(q_resid_segments[1]) = 2
  /\ SurplusLen = 0

\* the residuals of block b under coding_type ct
BlockResiduals(b, ct) ==
  IF ct = 0 THEN unpack_i32_list(b.payload, b.seg_len)
  ELSE decode_int_list_varint(b.payload, b.seg_len).out

\* the samples of the file f whose k-th block belongs to its k-th segment,
\* reconstructed segment by segment from entry k on
RECURSIVE SamplesInFileOrder(_, _, _)
SamplesInFileOrder(f, k, xh) ==
  IF k > Len(f.segs) THEN xh
  ELSE SamplesInFileOrder(
         f, k + 1,
         reconstruct_segment(xh, f.segs[k],
                             BlockResiduals(f.blocks[k], f.coding_type)).x_hat)

\* C26: the decoder associates residual blocks with segments by seg_id, not by
\* their position: a file whose residual blocks were reordered, each keeping
\* its seg_id, seg_len, byte_len and payload, decodes without error to the
\* sample vector and the metadata of the file as the encoder wrote it.
C26_BlockOrderIrrelevant ==
  /\ dpc # "raised"
  /\ dpc = "returned" =>
       /\ x_hat = SamplesInFileOrder(buf, 1, alloc_output(buf.n_points))
       /\ meta = [dt |-> parse_context(buf.ctx).dt, t0 |-> parse_context(buf.ctx).t0,
                  unit |-> parse_context(buf.ctx).unit]
       /\ dsegments = buf.segs
       /\ \A k \in 1..Len(buf.blocks) :
            q_res_segments[k] = BlockResiduals(buf.blocks[k], buf.coding_type)

\* a file of two blocks of different lengths was decoded with its blocks
\* exchanged
C26_Witness ==
  /\ dpc = "returned"
  /\ Len(buf.blocks) = 2
  /\ data.blocks = <<buf.blocks[2], buf.blocks[1]>>
  /\ buf.blocks[1].seg_len = 2
  /\ buf.blocks[2].seg_len = 1
  /\ \E i \in 1..2 : q_res_segments[1][i] # 0
  /\ x_hat = SamplesInFileOrder(buf, 1, alloc_output(buf.n_points))

\* a file of three blocks was decoded with its blocks in the order 2, 0, 1
C26_WitnessThree ==
  /\ dpc = "returned"
  /\ Len(buf.blocks) = 3
  /\ data.blocks = <<buf.blocks[3], buf.blocks[1], buf.blocks[2]>>
  /\ data.blocks # buf.blocks

\* the same file was decoded as the encoder wrote it
C26_WitnessUnpermuted ==
  /\ dpc = "returned"
  /\ Len(buf.blocks) = 2
  /\ data = buf
  /\ buf.blocks[1].seg_len = 2
  /\ buf.blocks[2].seg_len = 1

(***************************************************************************)
(* Failure kinds of the decoder on hostile files (SpecHostile)             *)
(***************************************************************************)
\* C27 as stated: every failure of decode_timeseries on an arbitrary buffer is
\* a ValueError and never another kind of failure, a segment entry with
\* end_idx >= n_points included; no index outside [0, n_points) is written.
C27_Original ==
  /\ dpc = "raised" => derr.kind = "ValueError"
  /\ \A j \in DOMAIN x_hat.cnt : j \in 0..(x_hat.n - 1)

\* a file that passed every header check and whose table names an index at or
\* above n_points fails while the samples are written, with an IndexError
C27_IndexErrorRaised ==
  /\ dpc = "raised"
  /\ derr.kind = "IndexError"
  /\ \E k \in 1..Len(dsegments) : dsegments[k].end_idx >= hdr.n_points


(***************************************************************************)
(* The two residual codings on the same series and options                 *)
(***************************************************************************)
\* the second call is about to write its residual section while the caller
\* still holds the file of the first call, written with the other coding
SecondCallEnds ==
  /\ epc = "write_residuals"
  /\ data # EmptyBuffer
  /\ data.coding_type # residual_coding_type(opts.residual_coding)

\* the file header fields, the context JSON and the segment table of two files
SameFraming(f, g) ==
  /\ f.magic = g.magic
  /\ f.version = g.version
  /\ f.flags = g.flags
  /\ f.header_len = g.header_len
  /\ f.n_points = g.n_points
  /\ f.n_segments = g.n_segments
  /\ f.ctx = g.ctx
  /\ f.segs = g.segs

\* C28 as stated: for the same series and the same other options, the calls
\* with residual_coding 'raw' and 'varint' both produce a file, the two files
\* have the same header fields, context JSON and segment table, and they decode
\* to exactly the same sample vector.
C28_Original ==
  [][(SecondCallEnds /\ epc' # epc) =>
       /\ epc' = "returned"
       /\ SameFraming(buf', data)
       /\ buf'.coding_type # data.coding_type
       /\ dpc = "returned" =>
            x_hat = SamplesInFileOrder(buf', 1, alloc_output(buf'.n_points))]_vars

\* the call with 'varint' returned a file and the call with 'raw', on the same
\* series and options, raised the packing error
C28_RawRaisedAfterVarint ==
  /\ epc = "raised"
  /\ eerr = PackError
  /\ opts.residual_coding = "raw"
  /\ data.coding_type = 1
  /\ data.n_points = Len(ts.values)

\* both calls returned and both files were decoded
C28_BothDecoded ==
  /\ epc = "returned"
  /\ dpc = "returned"
  /\ data = buf
  /\ \E k \in 1..Len(q_res_segments) :
       \E i \in 1..Len(q_res_segments[k]) : q_res_segments[k][i] # 0


(***************************************************************************)
(* Termination of the segmentation loops (FairSegment)                     *)
(***************************************************************************)
\* the arguments pass the checks of the chosen segmentation
SegmentationValid ==
  \/ opts.segment_mode = "fixed" /\ opts.segment_length > 0
  \/ AdaptiveValid

\* the largest end the inner loop of the adaptive mode may reach
InnerEndBound ==
  Min(Len(ts.values) - 1, (seg_start + opts.max_segment_length) - 1)

\* a step of either loop that emits a segment
EmitsSegment == Len(segment_ranges') = Len(segment_ranges) + 1

\* C29: both segmentation loops terminate for every input with valid
\* parameters (segment_length > 0, 1 <= min_len <= max_len): the start of each
\* new segment is strictly greater than the previous one, the inner loop of the
\* adaptive mode increases end by one per iteration and stays at or below
\* min(n - 1, start + max_len - 1), and the outer loop ends with start = n.
C29_SegmentationTerminates ==
  /\ (epc = "dispatch" /\ SegmentationValid)
       ~> (epc = "fit" /\ seg_start = Len(ts.values))
  /\ [][/\ EmitsSegment => /\ seg_start' > seg_start
                           /\ segment_ranges'[Len(segment_ranges')][1] = seg_start
                           /\ seg_start' <= Len(ts.values)
        /\ (epc = "adaptive_inner" /\ epc' = "adaptive_inner") =>
             /\ seg_end' = seg_end + 1
             /\ seg_end' <= InnerEndBound
             /\ seg_start' = seg_start
        /\ (epc \in {"fixed", "adaptive_outer"} /\ epc' = "fit") =>
             seg_start = Len(ts.values)]_vars
  /\ [](epc = "adaptive_inner" =>
          /\ seg_start <= seg_end
          /\ seg_end <= InnerEndBound)

\* the adaptive loop ended after it extended a segment to three samples and
\* emitted a second segment
C29_Witness ==
  /\ AdaptiveReturned
  /\ seg_start = Len(ts.values)
  /\ Len(segment_ranges) >= 2
  /\ \E k \in 1..Len(segment_ranges) :
       RangeLen(segment_ranges[k]) = 3 /\ opts.min_segment_length < 3

\* the fixed-length loop ended after three segments
C29_WitnessFixed ==
  /\ FixedReturned
  /\ seg_start = Len(ts.values)
  /\ Len(segment_ranges) = 3


(***************************************************************************)
(* Motifs (SpecMotif)                                                      *)
(***************************************************************************)
\* the sum of the lengths end_idx - start_idx + 1 of the segments a..b (0-based)
RECURSIVE SpanSum(_, _, _)
SpanSum(segs, a, b) ==
  IF a > b THEN 0
  ELSE ((segs[a + 1].end_idx - segs[a + 1].start_idx) + 1) + SpanSum(segs, a + 1, b)

\* C30: for a non-empty segment list the (start_seg, end_seg) ranges of the
\* motifs of extract_motifs are, in order, a contiguous partition of
\* [0, len(segments)); every segment inside a motif has the motif's pattern,
\* adjacent motifs have different patterns, and total_len is the sum of the
\* lengths of the motif's segments; for an empty list there are no motifs.
C30_MotifsPartitionSegments ==
  mpc = "returned" =>
    IF insp.segments = << >> THEN motifs = << >>
    ELSE /\ Len(motifs) >= 1
         /\ motifs[1].start_seg = 0
         /\ motifs[Len(motifs)].end_seg = Len(insp.segments) - 1
         /\ \A m \in 1..Len(motifs) :
              /\ motifs[m].start_seg <= motifs[m].end_seg
              /\ m > 1 => /\ motifs[m].start_seg = motifs[m - 1].end_seg + 1
                          /\ motifs[m].pattern # motifs[m - 1].pattern
              /\ \A k \in motifs[m].start_seg..motifs[m].end_seg :
                   classify_segment_pattern(insp.segments[k + 1]).pattern
                     = motifs[m].pattern
              /\ motifs[m].total_len
                   = SpanSum(insp.segments, motifs[m].start_seg, motifs[m].end_seg)

\* three segments gave a motif of two segments followed by a motif of one
C30_Witness ==
  /\ mpc = "returned"
  /\ Len(insp.segments) = 3
  /\ Len(motifs) = 2
  /\ motifs[1].end_seg = 1
  /\ motifs[1].total_len = 5
  /\ motifs[2].start_seg = 2

\* the empty list gave no motif
C30_WitnessEmpty == mpc = "returned" /\ insp.segments = << >> /\ motifs = << >>

\* a motif holds a segment with end_idx < start_idx, whose length is not
\* positive
C30_WitnessNonPositive ==
  /\ mpc = "returned"
  /\ \E m \in 1..Len(motifs) : motifs[m].total_len < 0

=============================================================================
